---- MODULE Spec2Model ----
(***************************************************************************)
(* The filter -> aggregate -> publish pipeline of terrorism_dashboard.py.  *)
(*                                                                         *)
(* State: the cached dataset, the module-level values derived from it, the *)
(* value of every widget, every published ColumnDataSource (column name -> *)
(* column length, plus the filtered subset the publishing call was given), *)
(* the figure metadata the update_* functions assign (axis factors, range  *)
(* ends, labels), and a log of the handler that ran last.                  *)
(*                                                                         *)
(* One action per handler: Startup (the module-level update_dashboard()),  *)
(* ControlChange (a widget's value changes, trigger_update runs) and       *)
(* ResetClick (reset_filters).  Handlers run synchronously to completion   *)
(* on the single server thread, so each is one atomic step.                *)
(***************************************************************************)
EXTENDS Integers, Sequences, FiniteSets, TLC

VARIABLES data, globals, widgets, out, pc, ui_events, log

vars == <<data, globals, widgets, out, pc, ui_events, log>>

\* Number of UI events (control changes, reset clicks) explored per run.
MaxEvents == 2

-----------------------------------------------------------------------------
(* Values and small helpers *)

\* pandas' missing value in an object column
NaN == "NaN"

\* A nullable number: <<>> is NaN, <<v>> is v.
IsNull(x) == x = <<>>

Max2(a, b) == IF a >= b THEN a ELSE b
Min2(a, b) == IF a <= b THEN a ELSE b

SetMax(S) == CHOOSE x \in S : \A y \in S : y <= x
SetMin(S) == CHOOSE x \in S : \A y \in S : x <= y

Range(f) == {f[i] : i \in DOMAIN f}

\* The sum of f[x] over x in S
RECURSIVE SetSum(_, _)
SetSum(S, f) ==
    IF S = {} THEN 0
    ELSE LET x == CHOOSE y \in S : TRUE IN f[x] + SetSum(S \ {x}, f)

\* The ascending sequence of the values f[i], i in S (duplicates kept).
RECURSIVE SortedValues(_, _)
SortedValues(S, f) ==
    IF S = {} THEN <<>>
    ELSE LET i == CHOOSE j \in S : \A k \in S : f[j] <= f[k]
         IN  <<f[i]>> \o SortedValues(S \ {i}, f)

Take(s, n) == SubSeq(s, 1, Min2(n, Len(s)))

-----------------------------------------------------------------------------
(* Program constants *)

MONTH_ORDER ==
    <<"Jan", "Feb", "Mar", "Apr", "May", "Jun",
      "Jul", "Aug", "Sep", "Oct", "Nov", "Dec">>

PERIOD_BINS == <<1969, 1991, 2001, 2010, 2017>>

PERIOD_LABELS ==
    <<"Late Cold War (1970-1991)",
      "Post-Cold War & 9/11 (1992-2001)",
      "Early War on Terror (2002-2010)",
      "Arab Spring / ISIS (2011-2017)">>

FOCUS_REGIONS ==
    <<"Middle East & North Africa", "South Asia", "Sub-Saharan Africa", "South America">>

RECENT_YEAR_THRESHOLD == 2008

\* value=(max(year_min, 1990), year_max)
DefaultYearFloor == 1990

\* np.quantile(..., 0.95), in percent
DefaultQuantilePct == 95

\* head(N) of the pinned category lists and of the Top-N aggregations
TopWeaponTypes == 5
TopOrgs == 5
TopTargetTypes == 8
TopAttackTypes == 6
HotspotFallback == 5
TimelineEventsN == 8
CountryN == 12
TargetN == 12
RegionTrendN == 4
WeaponN == 10
HotspotN == 10
SankeyN == 5
ScatterN == 500
CircleN == 10
TableN == 25

-----------------------------------------------------------------------------
(* The source file: raw rows as pd.read_csv delivers them.  String columns *)
(* hold NaN where the file has no value; numeric columns are nullable.     *)

RawRow(id, y, m, d, country, region, prov, city, lat, lon, succ, sui, att, tgt, g, weap, k, w) ==
    [eventid |-> id, iyear |-> y, imonth |-> m, iday |-> d,
     country_txt |-> country, region_txt |-> region, provstate |-> prov, city |-> city,
     latitude |-> lat, longitude |-> lon, success |-> succ, suicide |-> sui,
     attacktype1_txt |-> att, targtype1_txt |-> tgt, gname |-> g, weaptype1_txt |-> weap,
     nkill |-> k, nwound |-> w]

\* Years on both sides of 1990; a geocoded row without provstate (row 2); a row
\* without coordinates (row 3); null nkill / nwound / city / gname.
RawA ==
    << RawRow(1, 1989, 3, 14, "India", "South Asia", "Punjab", "Amritsar", <<31>>, <<74>>,
              <<1>>, <<0>>, "Bombing/Explosion", "Military", "LTTE", "Explosives", <<2>>, <<>>),
       RawRow(2, 1990, 0, 0, "India", "South Asia", NaN, NaN, <<28>>, <<77>>,
              <<1>>, <<1>>, "Armed Assault", "Police", NaN, "Firearms", <<0>>, <<1>>),
       RawRow(3, 1991, 7, 2, "Peru", "South America", "Lima", "Lima", <<>>, <<>>,
              <<0>>, <<0>>, "Bombing/Explosion", "Police", "Shining Path (SL)", "Explosives",
              <<1>>, <<1>>),
       RawRow(4, 1991, 12, 25, "Peru", "South America", "Lima", "Lima", <<-12>>, <<-77>>,
              <<1>>, <<0>>, "Armed Assault", "Military", "Shining Path (SL)", "Firearms",
              <<>>, <<0>>) >>

\* All years after 1990, regions outside FOCUS_REGIONS, a null region, a row
\* in the second period, an outcome that is neither 0 nor 1 (row 3).
RawB ==
    << RawRow(1, 1991, 1, 1, "France", "Western Europe", "Paris", "Paris", <<48>>, <<2>>,
              <<1>>, <<0>>, "Bombing/Explosion", "Business", "ETA", "Explosives", <<1>>, <<2>>),
       RawRow(2, 1992, 5, 0, "France", "Western Europe", "Corsica", NaN, <<42>>, <<9>>,
              <<0>>, <<0>>, "Bombing/Explosion", "Government (General)", NaN, "Explosives",
              <<0>>, <<0>>),
       RawRow(3, 1992, 6, 9, NaN, NaN, NaN, NaN, <<>>, <<>>,
              <<>>, <<>>, NaN, NaN, NaN, NaN, <<>>, <<>>) >>

RawDatasets == {RawA, RawB}

\* One year, five regions; more countries, target types, weapon types and
\* cities of one region than the Top-N charts keep; one (year, region) pair
\* with a dominant attack type.
RawC ==
    << RawRow(1, 1995, 1, 1, "Afghanistan", "South Asia", "Kabul", "Kabul", <<1>>, <<1>>,
              <<1>>, <<0>>, "Bombing/Explosion", "Business",
              "LTTE", "Explosives", <<0>>, <<0>>),
       RawRow(2, 1995, 2, 1, "Bangladesh", "South Asia", "Dhaka", "Dhaka", <<2>>, <<2>>,
              <<1>>, <<0>>, "Bombing/Explosion", "Government (General)",
              "LTTE", "Firearms", <<0>>, <<1>>),
       RawRow(3, 1995, 3, 1, "Bhutan", "South Asia", "Thimphu", "Thimphu", <<3>>, <<3>>,
              <<0>>, <<0>>, "Bombing/Explosion", "Police",
              "LTTE", "Incendiary", <<1>>, <<0>>),
       RawRow(4, 1995, 4, 1, "India", "South Asia", "Delhi", "Delhi", <<4>>, <<4>>,
              <<1>>, <<1>>, "Bombing/Explosion", "Military",
              "LTTE", "Melee", <<1>>, <<1>>),
       RawRow(5, 1995, 5, 1, "Maldives", "South Asia", "Male", "Male", <<5>>, <<5>>,
              <<1>>, <<0>>, "Bombing/Explosion", "Airports & Aircraft",
              "LTTE", "Chemical", <<0>>, <<2>>),
       RawRow(6, 1995, 6, 1, "Mauritius", "South Asia", "Port Louis", "Port Louis", <<6>>, <<6>>,
              <<0>>, <<0>>, "Bombing/Explosion", "Educational Institution",
              NaN, "Biological", <<0>>, <<0>>),
       RawRow(7, 1995, 7, 1, "Nepal", "South Asia", "Kathmandu", "Kathmandu", <<7>>, <<7>>,
              <<1>>, <<0>>, "Bombing/Explosion", "Journalists & Media",
              NaN, "Fake Weapons", <<0>>, <<1>>),
       RawRow(8, 1995, 8, 1, "Pakistan", "South Asia", "Karachi", "Karachi", <<8>>, <<8>>,
              <<1>>, <<0>>, "Bombing/Explosion", "NGO",
              NaN, "Other", <<2>>, <<0>>),
       RawRow(9, 1995, 9, 1, "Sri Lanka", "South Asia", "Colombo", "Colombo", <<9>>, <<9>>,
              <<1>>, <<0>>, "Bombing/Explosion", "Private Citizens & Property",
              "LTTE", "Radiological", <<0>>, <<0>>),
       RawRow(10, 1995, 10, 1, "India", "South Asia", "Mumbai", "Mumbai", <<10>>, <<10>>,
              <<1>>, <<0>>, "Bombing/Explosion", "Religious Figures/Institutions",
              NaN, "Sabotage Equipment", <<0>>, <<1>>),
       RawRow(11, 1995, 11, 1, "Pakistan", "South Asia", "Lahore", "Lahore", <<11>>, <<11>>,
              <<1>>, <<0>>, "Armed Assault", "Transportation",
              NaN, "Unknown", <<1>>, <<0>>),
       RawRow(12, 1995, 12, 1, "Iraq", "Middle East & North Africa", "Baghdad", "Baghdad", <<12>>, <<12>>,
              <<1>>, <<0>>, "Armed Assault", "Utilities",
              NaN, "Explosives", <<2>>, <<1>>),
       RawRow(13, 1995, 1, 1, "Peru", "South America", "Lima", "Lima", <<13>>, <<13>>,
              <<0>>, <<0>>, "Armed Assault", "Tourists",
              "Shining Path (SL)", "Explosives", <<0>>, <<0>>),
       RawRow(14, 1995, 1, 1, "Nigeria", "Sub-Saharan Africa", "Lagos", "Lagos", <<14>>, <<14>>,
              <<1>>, <<0>>, "Assassination", "Business",
              NaN, "Firearms", <<0>>, <<2>>),
       RawRow(15, 1995, 2, 1, "France", "Western Europe", "Paris", "Paris", <<15>>, <<15>>,
              <<1>>, <<0>>, "Assassination", "Police",
              "ETA", "Explosives", <<0>>, <<0>>) >>

\* Every year before 1990
RawOld ==
    << RawRow(1, 1989, 3, 14, "India", "South Asia", "Punjab", "Amritsar", <<31>>, <<74>>,
              <<1>>, <<0>>, "Bombing/Explosion", "Military", "LTTE", "Explosives", <<2>>, <<>>) >>

-----------------------------------------------------------------------------
(* load_data *)

fillna(x, v) == IF x = NaN THEN v ELSE x

fillna0(x) == IF IsNull(x) THEN 0 ELSE x[1]

\* Series.replace(0, 1)
replace01(x) == IF x = 0 THEN 1 ELSE x

clip(x, lo, hi) == IF x < lo THEN lo ELSE IF x > hi THEN hi ELSE x

\* Series.map({1: a, 0: b}): anything else maps to NaN
mapflag(x, one, zero) ==
    IF IsNull(x) THEN NaN
    ELSE IF x[1] = 1 THEN one
    ELSE IF x[1] = 0 THEN zero
    ELSE NaN

\* pd.cut(iyear, bins=PERIOD_BINS, labels=PERIOD_LABELS): intervals (lo, hi]
cut_period(y) ==
    IF \E b \in 1..Len(PERIOD_LABELS) : PERIOD_BINS[b] < y /\ y <= PERIOD_BINS[b + 1]
    THEN PERIOD_LABELS[CHOOSE b \in 1..Len(PERIOD_LABELS) :
                           PERIOD_BINS[b] < y /\ y <= PERIOD_BINS[b + 1]]
    ELSE NaN

\* the sum taken before the nulls are filled: (nkill + nwound).fillna(0)
casualties_sum_then_fill(nkill, nwound) ==
    IF IsNull(nkill) \/ IsNull(nwound) THEN 0 ELSE nkill[1] + nwound[1]

\* df["casualties"] = df["nkill"] + df["nwound"], after both were filled
casualties(nkill, nwound) == fillna0(nkill) + fillna0(nwound)

enrich(r) ==
    LET month == replace01(r.imonth)
        day == replace01(r.iday)
        kills == fillna0(r.nkill)
        wounds == fillna0(r.nwound)
        month_num == clip(month, 1, 12)
    IN  [eventid |-> r.eventid,
         iyear |-> r.iyear,
         imonth |-> month,
         iday |-> day,
         event_date |-> <<r.iyear, month, day>>,
         country_txt |-> fillna(r.country_txt, "Unknown country"),
         region_txt |-> fillna(r.region_txt, "Unknown region"),
         provstate |-> r.provstate,
         city |-> fillna(r.city, "Unknown city"),
         latitude |-> r.latitude,
         longitude |-> r.longitude,
         success |-> r.success,
         suicide |-> r.suicide,
         attacktype1_txt |-> fillna(r.attacktype1_txt, "Unknown attack"),
         targtype1_txt |-> fillna(r.targtype1_txt, "Unknown target"),
         gname |-> fillna(r.gname, "Unknown group"),
         weaptype1_txt |-> fillna(r.weaptype1_txt, "Unknown weapon"),
         nkill |-> kills,
         nwound |-> wounds,
         casualties |-> casualties(r.nkill, r.nwound),
         success_flag |-> mapflag(r.success, "Successful", "Failed"),
         suicide_flag |-> mapflag(r.suicide, "Suicide", "Non-suicide"),
         month_num |-> month_num,
         month_name |-> MONTH_ORDER[month_num],
         decade |-> (r.iyear \div 10) * 10,
         period |-> cut_period(r.iyear),
         recent_flag |-> (r.iyear >= RECENT_YEAR_THRESHOLD)]

load_data(raw) == [i \in DOMAIN raw |-> enrich(raw[i])]

-----------------------------------------------------------------------------
(* Module-level values derived from the dataset (lines 185-199) *)

Rows(d) == DOMAIN d

Col(d, S, f) == {d[i][f] : i \in S}

\* Number of rows of S whose column f holds v
CountOf(d, S, f, v) == Cardinality({i \in S : d[i][f] = v})

\* head(N) of a ranking of the categories C by key, descending.  With at most
\* N categories this is all of them; otherwise a top set (ties are broken by
\* the sort, which pandas leaves unspecified).
TopSet(C, key, N) ==
    IF Cardinality(C) <= N THEN C
    ELSE CHOOSE T \in SUBSET C :
            /\ Cardinality(T) = N
            /\ \A a \in T, b \in C \ T : key[a] >= key[b]

\* value_counts().head(N).index of column f over the rows S
TopByCount(d, S, f, N) ==
    TopSet(Col(d, S, f), [v \in Col(d, S, f) |-> CountOf(d, S, f, v)], N)

OrDefault(S, dflt) == IF S = {} THEN {dflt} ELSE S

SeqFilter(s, S) == SelectSeq(s, LAMBDA x : x \in S)

\* The region labels of the source files, in Python's string order: the
\* order sorted() gives the list `regions`.
RegionOrder ==
    <<"Middle East & North Africa", "South America", "South Asia", "Sub-Saharan Africa",
      "Unknown region", "Western Europe">>

\* sorted(data["region_txt"].dropna().unique().tolist())
sorted_regions(d) == SeqFilter(RegionOrder, Col(d, Rows(d), "region_txt"))

\* [region for region in FOCUS_REGIONS if region in regions] or regions[:5]
hotspot_regions_of(regs) ==
    LET focus == SeqFilter(FOCUS_REGIONS, Range(regs))
    IN  IF focus # <<>> THEN focus ELSE Take(regs, HotspotFallback)

module_globals(d) ==
    LET all == Rows(d)
        named == {i \in all : d[i].gname # "Unknown group"}
        regs == sorted_regions(d)
    IN  [year_min |-> SetMin(Col(d, all, "iyear")),
         year_max |-> SetMax(Col(d, all, "iyear")),
         regions |-> regs,
         attack_types |-> Col(d, all, "attacktype1_txt"),
         target_types |-> Col(d, all, "targtype1_txt"),
         hotspot_regions |-> hotspot_regions_of(regs),
         top_weapon_types |->
             OrDefault(TopByCount(d, all, "weaptype1_txt", TopWeaponTypes), "Unknown weapon"),
         top_orgs |-> OrDefault(TopByCount(d, named, "gname", TopOrgs), "Unknown group"),
         top_target_types |->
             OrDefault(TopByCount(d, all, "targtype1_txt", TopTargetTypes), "Unknown target"),
         top_attack_types |->
             OrDefault(TopByCount(d, all, "attacktype1_txt", TopAttackTypes), "Unknown attack")]

-----------------------------------------------------------------------------
(* Widgets (lines 201-276) *)

\* int(np.quantile(column, q)): linear interpolation between the two order
\* statistics around q*(n-1), truncated (exact arithmetic; values are >= 0).
quantile_int(d, f, pct) ==
    LET v == SortedValues(Rows(d), [i \in Rows(d) |-> d[i][f]])
        n == Len(v)
        pos == pct * (n - 1)
        lo == (pos \div 100) + 1
        frac == pos % 100
        hi == Min2(lo + 1, n)
    IN  (100 * v[lo] + frac * (v[hi] - v[lo])) \div 100

column_max(d, f) == SetMax(Col(d, Rows(d), f))

year_slider_value(g) == <<Max2(g.year_min, DefaultYearFloor), g.year_max>>
fatality_slider_value(d) == <<0, quantile_int(d, "nkill", DefaultQuantilePct)>>
casualty_slider_value(d) == <<0, quantile_int(d, "casualties", DefaultQuantilePct)>>

hotspot_region_select_value(g) ==
    IF g.hotspot_regions # <<>> THEN g.hotspot_regions[1] ELSE "All"

\* The value each widget is constructed with
widget_values(d, g) ==
    [year_slider |-> year_slider_value(g),
     region_select |-> Range(g.regions),
     attack_select |-> g.attack_types,
     target_select |-> g.target_types,
     fatality_slider |-> fatality_slider_value(d),
     casualty_slider |-> casualty_slider_value(d),
     success_select |-> "All",
     suicide_select |-> "All",
     timeline_metric |-> "Incidents",
     highlight_region_select |-> "None",
     hotspot_region_select |-> hotspot_region_select_value(g)]

\* RangeSlider(start, end, step=1): the pairs lo <= hi a user can set
slider_values(start, end) == {p \in (start..end) \X (start..end) : p[1] <= p[2]}

\* The values a widget's `value` can take: its options / its slider range
widget_options(d, g) ==
    [year_slider |-> slider_values(g.year_min, g.year_max),
     region_select |-> SUBSET Range(g.regions),
     attack_select |-> SUBSET g.attack_types,
     target_select |-> SUBSET g.target_types,
     fatality_slider |-> slider_values(0, column_max(d, "nkill")),
     casualty_slider |-> slider_values(0, column_max(d, "casualties")),
     success_select |-> {"All", "Successful", "Failed"},
     suicide_select |-> {"All", "Suicide", "Non-suicide"},
     timeline_metric |-> {"Incidents", "Fatalities", "Wounded", "Casualties"},
     highlight_region_select |-> {"None"} \cup Range(g.regions),
     hotspot_region_select |->
         IF g.hotspot_regions # <<>> THEN Range(g.hotspot_regions) ELSE {"All"}]

\* for widget in [...]: widget.on_change("value", trigger_update)
registered_widgets ==
    {"year_slider", "region_select", "attack_select", "target_select",
     "fatality_slider", "casualty_slider", "success_select", "suicide_select",
     "timeline_metric", "highlight_region_select", "hotspot_region_select"}

-----------------------------------------------------------------------------
(* filter_data: the rows of the dataset, narrowed predicate by predicate.  *)
(* A subset is the set of row positions kept (pandas keeps the row order). *)

in_range(x, r) == x >= r[1] /\ x <= r[2]

\* filter_data with the upper end of the year range excluded
filter_data_open_end(d, w) ==
    LET s0 == Rows(d)
        s1 == {i \in s0 : d[i].iyear >= w.year_slider[1] /\ d[i].iyear < w.year_slider[2]}
        s2 == IF w.region_select # {}
              THEN {i \in s1 : d[i].region_txt \in w.region_select} ELSE s1
        s3 == IF w.attack_select # {}
              THEN {i \in s2 : d[i].attacktype1_txt \in w.attack_select} ELSE s2
        s4 == IF w.target_select # {}
              THEN {i \in s3 : d[i].targtype1_txt \in w.target_select} ELSE s3
        s5 == {i \in s4 : d[i].nkill >= w.fatality_slider[1]
                          /\ d[i].nkill <= w.fatality_slider[2]}
        s6 == {i \in s5 : d[i].casualties >= w.casualty_slider[1]
                          /\ d[i].casualties <= w.casualty_slider[2]}
        s7 == IF w.success_select # "All"
              THEN {i \in s6 : d[i].success_flag = w.success_select} ELSE s6
        s8 == IF w.suicide_select # "All"
              THEN {i \in s7 : d[i].suicide_flag = w.suicide_select} ELSE s7
    IN  s8

\* filter_data with isin applied to an empty selection as well
filter_data_isin_always(d, w) ==
    LET s0 == Rows(d)
        s1 == {i \in s0 : d[i].iyear >= w.year_slider[1] /\ d[i].iyear <= w.year_slider[2]}
        s2 == IF TRUE
              THEN {i \in s1 : d[i].region_txt \in w.region_select} ELSE s1
        s3 == IF TRUE
              THEN {i \in s2 : d[i].attacktype1_txt \in w.attack_select} ELSE s2
        s4 == IF TRUE
              THEN {i \in s3 : d[i].targtype1_txt \in w.target_select} ELSE s3
        s5 == {i \in s4 : d[i].nkill >= w.fatality_slider[1]
                          /\ d[i].nkill <= w.fatality_slider[2]}
        s6 == {i \in s5 : d[i].casualties >= w.casualty_slider[1]
                          /\ d[i].casualties <= w.casualty_slider[2]}
        s7 == IF w.success_select # "All"
              THEN {i \in s6 : d[i].success_flag = w.success_select} ELSE s6
        s8 == IF w.suicide_select # "All"
              THEN {i \in s7 : d[i].suicide_flag = w.suicide_select} ELSE s7
    IN  s8

filter_data(d, w) ==
    LET s0 == Rows(d)
        s1 == {i \in s0 : d[i].iyear >= w.year_slider[1] /\ d[i].iyear <= w.year_slider[2]}
        s2 == IF w.region_select # {}
              THEN {i \in s1 : d[i].region_txt \in w.region_select} ELSE s1
        s3 == IF w.attack_select # {}
              THEN {i \in s2 : d[i].attacktype1_txt \in w.attack_select} ELSE s2
        s4 == IF w.target_select # {}
              THEN {i \in s3 : d[i].targtype1_txt \in w.target_select} ELSE s3
        s5 == {i \in s4 : d[i].nkill >= w.fatality_slider[1]
                          /\ d[i].nkill <= w.fatality_slider[2]}
        s6 == {i \in s5 : d[i].casualties >= w.casualty_slider[1]
                          /\ d[i].casualties <= w.casualty_slider[2]}
        s7 == IF w.success_select # "All"
              THEN {i \in s6 : d[i].success_flag = w.success_select} ELSE s6
        s8 == IF w.suicide_select # "All"
              THEN {i \in s7 : d[i].suicide_flag = w.suicide_select} ELSE s7
    IN  s8

-----------------------------------------------------------------------------
(* Outputs.  A ColumnDataSource is modelled by its columns (column name -> *)
(* column length) and by the subset handed to the call that assigned it    *)
(* last (<<>> before any call): every column value is a function of that   *)
(* subset, of the selectors and of the pinned category lists.              *)

Columns(keys, n) == [k \in keys |-> n]

NewSource(keys) == [cols |-> Columns(keys, 0), input |-> <<>>]

Keys(o, name) == DOMAIN o.src[name].cols

\* source.data = {...}
Publish(o, name, keys, n, S) ==
    [o EXCEPT !.src[name] = [cols |-> Columns(keys, n), input |-> <<S>>]]

\* source.data = dict(...) whose columns are built one by one: lens gives the
\* length of each list
PublishColumns(o, name, lens, S) ==
    [o EXCEPT !.src[name] = [cols |-> lens, input |-> <<S>>]]

\* source.data = {key: [] for key in source.data.keys()}
PublishCleared(o, name, S) == Publish(o, name, Keys(o, name), 0, S)

SetFig(o, field, v) == [o EXCEPT !.fig[field] = v]

map_keys ==
    {"mercator_x", "mercator_y", "country_txt", "region_txt", "city", "incidents",
     "fatalities", "wounded", "casualties", "years", "size", "color", "alpha"}
timeline_keys == {"year", "incidents", "fatalities", "wounded", "casualties"}
bar_keys(axis) == {axis, "incidents", "casualties"}
success_keys ==
    {"category", "angle", "color", "label", "incidents", "percent",
     "label_x", "label_y", "label_short"}
hotspot_keys == {"city", "events", "avg_casualties", "label_x", "label_text"}
table_keys ==
    {"event_date", "country_txt", "city", "attacktype1_txt", "targtype1_txt",
     "nkill", "nwound", "casualties"}
lethality_keys == {"attack", "incidents", "casualties", "avg", "size", "color"}
sankey_edge_keys == {"xs", "ys", "line_width", "color", "label", "incidents"}
sankey_node_keys == {"x", "y", "name", "color", "type", "value"}
boxplot_keys == {"region", "region_full", "q1", "q2", "q3", "lower", "upper"}
scatter_keys ==
    {"fatalities", "wounded", "casualties", "country", "city", "year", "attacktype", "size"}
circle_keys == {"category", "incidents", "casualties", "size", "color"}
attack_region_keys == {"year", "region", "attack", "incidents", "color", "alpha"}
org_node_keys == {"index", "color", "label", "type", "value"}
org_edge_keys == {"start", "end", "line_width", "line_color"}

\* The data sources as constructed (lines 280-398, 450-453, 1119)
sources(g) ==
    [map_source |-> NewSource(map_keys),
     timeline_source |-> NewSource(timeline_keys),
     timeline_renderer |-> NewSource({"year", "metric"}),
     timeline_events_source |-> NewSource({"year", "metric", "text"}),
     country_source |-> NewSource(bar_keys("country_txt")),
     attack_source |-> NewSource(bar_keys("attacktype1_txt")),
     target_source |-> NewSource(bar_keys("targtype1_txt")),
     season_source |-> NewSource({"month", "incidents"}),
     heatmap_source |-> NewSource({"decade", "region", "casualties", "color"}),
     region_trend_source |-> NewSource({"xs", "ys", "legend", "color"}),
     weapon_source |-> NewSource(bar_keys("weaptype1_txt")),
     success_source |-> NewSource(success_keys),
     region_stack_source |-> NewSource({"year"} \cup Range(g.regions)),
     region_highlight_source |-> NewSource({"year", "value"}),
     period_source |-> NewSource({"period", "events", "casualties"}),
     hotspot_source |-> NewSource(hotspot_keys),
     attack_target_source |-> NewSource({"attack", "target", "incidents"}),
     weapon_share_source |-> NewSource({"year"} \cup g.top_weapon_types),
     org_trend_source |-> NewSource({"year"} \cup g.top_orgs),
     severity_source |-> NewSource({"target", "killed", "wounded"}),
     table_source |-> NewSource(table_keys),
     region_share_source |-> NewSource({"decade"} \cup Range(g.regions)),
     attack_share_source |-> NewSource({"year"} \cup g.top_attack_types),
     attack_lethality_source |-> NewSource(lethality_keys),
     target_percent_source |-> NewSource({"year"} \cup g.top_target_types),
     sankey_edge_source |-> NewSource(sankey_edge_keys),
     sankey_node_source |-> NewSource(sankey_node_keys),
     org_graph_nodes |-> NewSource({"index"}),
     org_graph_edges |-> NewSource({"start", "end"}),
     org_split_source |-> NewSource({"year", "organized", "unorganized"}),
     severity_dual_source |-> NewSource({"year", "incidents", "avg_casualties"}),
     boxplot_source |-> NewSource(boxplot_keys),
     scatter_source |-> NewSource(scatter_keys),
     circle_source |-> NewSource(circle_keys),
     attack_region_source |-> NewSource(attack_region_keys),
     suicide_trend_source |-> NewSource({"year", "rate"}),
     tactic_success_source |-> NewSource({"attack", "rate", "color"})]

\* The figure properties the update_* functions assign, as constructed.
\* Range ends that carry a factor 1.1 or 1.8 are in tenths; an automatic
\* (data) range end is <<>>.
figures ==
    [timeline_axis_label |-> "Incidents",
     country_factors |-> {},
     attack_factors |-> {},
     target_factors |-> {},
     heatmap_x_factors |-> {},
     heatmap_y_factors |-> {},
     period_y_end |-> <<>>,
     period_casualties_end |-> <<10>>,
     region_highlight_color |-> "#000000",
     hotspot_factors |-> {},
     attack_target_x_factors |-> {},
     attack_target_y_factors |-> {},
     attack_target_high |-> 1,
     weapon_factors |-> {},
     target_severity_factors |-> {},
     boxplot_factors |-> {},
     attack_region_y_factors |-> {},
     attack_region_x_range |-> <<>>,
     suicide_trend_x_range |-> <<>>,
     tactic_success_factors |-> {},
     region_share_factors |-> {},
     sankey_y_range |-> <<-5, 125>>,
     org_graph_layout |-> {},
     severity_avg_end |-> <<5, 1>>]

\* summary_div = Div(text="")
summary_div == [text |-> <<>>, input |-> <<>>]

\* The column values of the sources whose contents are modelled, as
\* constructed: every column is the empty list.
values0 ==
    [country_source |-> <<>>, target_source |-> <<>>, weapon_source |-> <<>>,
     hotspot_source |-> <<>>, table_source |-> <<>>, region_trend_source |-> <<>>,
     weapon_share_source |-> <<>>, attack_share_source |-> <<>>,
     target_percent_source |-> <<>>, region_share_source |-> <<>>,
     success_source |-> <<>>, boxplot_source |-> <<>>, heatmap_source |-> <<>>,
     attack_region_source |-> <<>>, season_source |-> <<>>, period_source |-> <<>>,
     severity_source |-> <<>>, timeline_events_source |-> <<>>, scatter_source |-> <<>>,
     org_graph |-> [nodes |-> <<>>, edges |-> <<>>, layout |-> <<>>]]

\* @lru_cache(maxsize=1) on load_data: misses counts the executions of the
\* body (each one reads the file), hits the calls answered with the cached
\* frame
maxsize == 1

\* len(Turbo256)
Turbo256Len == 256

lru_cache_new == [misses |-> 0, hits |-> 0, currsize |-> 0]

\* one call of the decorated load_data()
lru_cache_call(c) ==
    IF c.currsize = maxsize THEN [c EXCEPT !.hits = @ + 1]
    ELSE [c EXCEPT !.misses = @ + 1, !.currsize = maxsize]

\* a refresh that clears the cache and calls load_data() again
frame_read_reloaded(c) == lru_cache_call([c EXCEPT !.currsize = 0])

\* filter_data copies the module global bound by data = load_data():
\* no call of load_data, no cache_clear
frame_read(c) == c

\* rng counts the draws made from numpy's global random generator; cache is
\* the cache of load_data after data = load_data().
construction(g) ==
    [src |-> sources(g), fig |-> figures, summary |-> summary_div, val |-> values0, rng |-> 0,
     cache |-> lru_cache_call(lru_cache_new)]

-----------------------------------------------------------------------------
(* Group-by helpers *)

Pairs(d, S, f1, f2) == {<<d[i][f1], d[i][f2]>> : i \in S}

Where(d, S, f, v) == {i \in S : d[i][f] = v}

SumOf(d, S, f) == SetSum(S, [i \in S |-> d[i][f]])

\* groupby(f).agg(sum of v).sort_values(descending).head(N): the groups kept
TopBySum(d, S, f, v, N) ==
    TopSet(Col(d, S, f), [c \in Col(d, S, f) |-> SumOf(d, Where(d, S, f, c), v)], N)

RECURSIVE GCD(_, _)
GCD(a, b) == IF b = 0 THEN a ELSE GCD(b, a % b)

\* The fraction n/m in lowest terms (m > 0, n >= 0)
Fraction(n, m) == LET k == GCD(n, m) IN <<n \div k, m \div k>>

-----------------------------------------------------------------------------
(* The aggregations, in the order update_dashboard calls them.  Each takes *)
(* the dataset d, the module globals g, the widget values w, the filtered  *)
(* subset S and the outputs o, and returns the outputs after the call.     *)

\* subset.dropna(subset=["latitude", "longitude"])
geo_rows(d, S) == {i \in S : ~IsNull(d[i].latitude) /\ ~IsNull(d[i].longitude)}

\* groupby([country_txt, region_txt, provstate, city, latitude, longitude]):
\* groupby drops the rows in which a key is NaN; provstate is the one key
\* load_data leaves unfilled.
map_groups(d, S) ==
    {<<d[i].country_txt, d[i].region_txt, d[i].provstate, d[i].city,
       d[i].latitude, d[i].longitude>> :
        i \in {j \in geo_rows(d, S) : d[j].provstate # NaN}}

\* update_map without the early return on geo_df.empty
update_map_raises_unguarded(d, S) == map_groups(d, S) = {}

\* With geocoded rows but no group left, grouped.apply(..., axis=1) returns a
\* frame and the assignment to grouped["years"] raises ValueError, before
\* map_source is assigned.
update_map_raises(d, S) == geo_rows(d, S) # {} /\ map_groups(d, S) = {}

update_map(d, g, w, S, o) ==
    IF geo_rows(d, S) = {}
    THEN PublishCleared(o, "map_source", S)
    ELSE Publish(o, "map_source",
                 {"country_txt", "region_txt", "provstate", "city", "latitude", "longitude",
                  "incidents", "fatalities", "wounded", "casualties", "year_min", "year_max",
                  "mercator_x", "mercator_y", "years", "size", "color", "alpha"},
                 Cardinality(map_groups(d, S)), S)

update_timeline(d, g, w, S, o) ==
    IF S = {}
    THEN Publish(Publish(PublishCleared(o, "timeline_source", S),
                         "timeline_renderer", {"year", "metric"}, 0, S),
                 "timeline_events_source", {"year", "metric", "text"}, 0, S)
    ELSE LET ny == Cardinality(Col(d, S, "iyear"))
             o1 == Publish(o, "timeline_source",
                           {"iyear", "incidents", "fatalities", "wounded", "casualties"}, ny, S)
             o2 == Publish(o1, "timeline_renderer", {"year", "metric"}, ny, S)
             o3 == SetFig(o2, "timeline_axis_label", w.timeline_metric)
         IN  \* update_timeline_events: subset.sort_values(casualties).head(8)
             Publish(o3, "timeline_events_source", {"year", "metric", "text"},
                     Min2(TimelineEventsN, Cardinality(S)), S)

\* the country bar narrowed to the highlighted region
update_country_bar_highlighted(d, g, w, S, o) ==
    LET shown == IF w.highlight_region_select = "None" THEN S
                 ELSE Where(d, S, "region_txt", w.highlight_region_select)
        top == IF shown = {} THEN {}
               ELSE TopBySum(d, shown, "country_txt", "casualties", CountryN)
    IN  SetFig(Publish(o, "country_source", bar_keys("country_txt"), Cardinality(top), S),
               "country_factors", top)

update_country_bar(d, g, w, S, o) ==
    LET top == IF S = {} THEN {} ELSE TopBySum(d, S, "country_txt", "casualties", CountryN)
    IN  SetFig(Publish(o, "country_source", bar_keys("country_txt"), Cardinality(top), S),
               "country_factors", top)

update_attack_bar(d, g, w, S, o) ==
    LET groups == Col(d, S, "attacktype1_txt")
    IN  SetFig(Publish(o, "attack_source", bar_keys("attacktype1_txt"),
                       Cardinality(groups), S),
               "attack_factors", groups)

update_target_bar(d, g, w, S, o) ==
    LET top == IF S = {} THEN {} ELSE TopBySum(d, S, "targtype1_txt", "casualties", TargetN)
    IN  SetFig(Publish(o, "target_source", bar_keys("targtype1_txt"), Cardinality(top), S),
               "target_factors", top)

\* groupby(month_name, observed=False).reindex(MONTH_ORDER, fill_value=0)
update_seasonality(d, g, w, S, o) ==
    Publish(o, "season_source", {"month", "incidents"},
            IF S = {} THEN 0 ELSE Len(MONTH_ORDER), S)

update_heatmap(d, g, w, S, o) ==
    LET cells == Pairs(d, S, "region_txt", "decade")
        o1 == Publish(o, "heatmap_source", {"decade", "region", "casualties", "color"},
                      Cardinality(cells), S)
        o2 == SetFig(o1, "heatmap_x_factors", Col(d, S, "decade"))
    IN  SetFig(o2, "heatmap_y_factors", Col(d, S, "region_txt"))

\* max(column.max() * 1.1, 1), in tenths
axis_end(m) == Max2(11 * m, 10)

update_period_view(d, g, w, S, o) ==
    LET period_df == {i \in S : d[i].period # NaN}
        n_events(p) == Cardinality(Where(d, period_df, "period", p))
        cas(p) == SumOf(d, Where(d, period_df, "period", p), "casualties")
        labels == Range(PERIOD_LABELS)
    IN  IF period_df = {}
        THEN SetFig(SetFig(Publish(o, "period_source", {"period", "events", "casualties"}, 0, S),
                           "period_y_end", <<10>>),
                    "period_casualties_end", <<10>>)
        ELSE SetFig(SetFig(Publish(o, "period_source", {"period", "events", "casualties"},
                                   Len(PERIOD_LABELS), S),
                           "period_y_end", <<axis_end(SetMax({n_events(p) : p \in labels}))>>),
                    "period_casualties_end", <<axis_end(SetMax({cas(p) : p \in labels}))>>)

\* year = pivot.index; each region column is pivot.get(region, a zero Series
\* on pivot.index); the highlight line takes data_dict["year"] and
\* pivot[selected_region]
update_region_stack(d, g, w, S, o) ==
    LET stack_keys == {"year"} \cup Range(g.regions)
        ny == Cardinality(Col(d, S, "iyear"))
        selected == w.highlight_region_select
    IN  IF S = {}
        THEN Publish(Publish(o, "region_stack_source", stack_keys, 0, S),
                     "region_highlight_source", {"year", "value"}, 0, S)
        ELSE LET o1 == PublishColumns(o, "region_stack_source",
                                      [c \in stack_keys |->
                                          IF c = "year" THEN ny
                                          ELSE Cardinality(Col(d, S, "iyear"))], S)
             IN  IF selected # "None" /\ selected \in Col(d, S, "region_txt")
                 THEN SetFig(Publish(o1, "region_highlight_source", {"year", "value"}, ny, S),
                             "region_highlight_color", selected)
                 ELSE Publish(o1, "region_highlight_source", {"year", "value"}, 0, S)

update_region_trend(d, g, w, S, o) ==
    LET top == IF S = {} THEN {}
               ELSE TopBySum(d, S, "region_txt", "casualties", RegionTrendN)
    IN  Publish(o, "region_trend_source", {"xs", "ys", "legend", "color"}, Cardinality(top), S)

update_weapon_bar(d, g, w, S, o) ==
    LET top == IF S = {} THEN {} ELSE TopByCount(d, S, "weaptype1_txt", WeaponN)
    IN  SetFig(Publish(o, "weapon_source", bar_keys("weaptype1_txt"), Cardinality(top), S),
               "weapon_factors", top)

update_hotspots(d, g, w, S, o) ==
    LET region_df == Where(d, S, "region_txt", w.hotspot_region_select)
        top == IF region_df = {} THEN {} ELSE TopByCount(d, region_df, "city", HotspotN)
    IN  SetFig(Publish(o, "hotspot_source", hotspot_keys, Cardinality(top), S),
               "hotspot_factors", top)

update_attack_target_matrix(d, g, w, S, o) ==
    LET cells == Pairs(d, S, "attacktype1_txt", "targtype1_txt")
        n(c) == Cardinality({i \in S : <<d[i].attacktype1_txt, d[i].targtype1_txt>> = c})
        o1 == Publish(o, "attack_target_source", {"attack", "target", "incidents"},
                      Cardinality(cells), S)
        o2 == SetFig(o1, "attack_target_x_factors", Col(d, S, "targtype1_txt"))
        o3 == SetFig(o2, "attack_target_y_factors", Col(d, S, "attacktype1_txt"))
    IN  SetFig(o3, "attack_target_high",
               IF S = {} THEN 1 ELSE Max2(SetMax({n(c) : c \in cells}), 1))

\* One row per year of the rows whose category is pinned; one column per
\* pinned category (weapon share, organisation trend).
pinned_pivot(d, S, o, name, f, pinned) ==
    LET filtered == {i \in S : d[i][f] \in pinned}
    IN  Publish(o, name, {"year"} \cup pinned, Cardinality(Col(d, filtered, "iyear")), S)

update_weapon_share(d, g, w, S, o) ==
    pinned_pivot(d, S, o, "weapon_share_source", "weaptype1_txt", g.top_weapon_types)

update_org_trend(d, g, w, S, o) ==
    pinned_pivot(d, S, o, "org_trend_source", "gname", g.top_orgs)

\* groupby(targtype1_txt).reindex(top_target_types).fillna(0)
update_target_severity(d, g, w, S, o) ==
    IF S = {}
    THEN SetFig(Publish(o, "severity_source", {"target", "killed", "wounded"}, 0, S),
                "target_severity_factors", {})
    ELSE SetFig(Publish(o, "severity_source", {"target", "killed", "wounded"},
                        Cardinality(g.top_target_types), S),
                "target_severity_factors", g.top_target_types)

\* the split with a palette of one colour
success_columns_one_colour(counts) ==
    [c \in success_keys |-> IF c = "color" THEN Min2(1, Len(counts)) ELSE Len(counts)]

\* The lists of the split: color is palette[: len(counts)] of the two-colour
\* palette, every other list has one entry per entry of counts
success_columns(counts) ==
    [c \in success_keys |-> IF c = "color" THEN Min2(2, Len(counts)) ELSE Len(counts)]

\* counts = value_counts().reindex(["Successful", "Failed"]); total = counts.sum()
update_success_split(d, g, w, S, o) ==
    LET total == Cardinality({i \in S : d[i].success_flag \in {"Successful", "Failed"}})
    IN  IF total = 0
        THEN Publish(o, "success_source", success_keys, 0, S)
        ELSE PublishColumns(o, "success_source", success_columns(<<"Successful", "Failed">>), S)

\* One row per region that has values (nkill is never null after load_data)
REGION_ABBREV ==
    [r \in {"Middle East & North Africa", "South Asia", "Sub-Saharan Africa", "South America",
            "Central America & Caribbean", "Southeast Asia", "Western Europe",
            "Eastern Europe", "North America", "East Asia", "Central Asia",
            "Australasia & Oceania"} |->
        CASE r = "Middle East & North Africa" -> "MENA"
          [] r = "South Asia" -> "SA"
          [] r = "Sub-Saharan Africa" -> "SSA"
          [] r = "South America" -> "SAM"
          [] r = "Central America & Caribbean" -> "CAC"
          [] r = "Southeast Asia" -> "SEA"
          [] r = "Western Europe" -> "WEU"
          [] r = "Eastern Europe" -> "EEU"
          [] r = "North America" -> "NAM"
          [] r = "East Asia" -> "EAS"
          [] r = "Central Asia" -> "CA"
          [] r = "Australasia & Oceania" -> "AUS"]

\* REGION_ABBREV.get(region, "".join(word[0].upper() for word in region.split()))
abbrev(region) ==
    IF region \in DOMAIN REGION_ABBREV THEN REGION_ABBREV[region]
    ELSE IF region = "Unknown region" THEN "UR"
    ELSE region

update_boxplot(d, g, w, S, o) ==
    IF S = {}
    THEN SetFig(PublishCleared(o, "boxplot_source", S), "boxplot_factors", {})
    ELSE SetFig(Publish(o, "boxplot_source", boxplot_keys,
                        Cardinality(Col(d, S, "region_txt")), S),
                "boxplot_factors", {abbrev(r) : r \in Col(d, S, "region_txt")})

\* sort_values(casualties).head(500)[...].rename(...): country_txt keeps its name
update_scatter(d, g, w, S, o) ==
    IF S = {}
    THEN PublishCleared(o, "scatter_source", S)
    ELSE Publish(o, "scatter_source",
                 {"fatalities", "wounded", "casualties", "country_txt", "city", "year",
                  "attacktype", "size"},
                 Min2(ScatterN, Cardinality(S)), S)

update_circle_view(d, g, w, S, o) ==
    IF S = {}
    THEN PublishCleared(o, "circle_source", S)
    ELSE Publish(o, "circle_source", circle_keys,
                 Cardinality(TopByCount(d, S, "attacktype1_txt", CircleN)), S)

\* One row per (year, region): the first of each group after the sort
update_attack_region(d, g, w, S, o) ==
    IF S = {}
    THEN SetFig(PublishCleared(o, "attack_region_source", S), "attack_region_y_factors", {})
    ELSE LET o1 == Publish(o, "attack_region_source", attack_region_keys,
                           Cardinality(Pairs(d, S, "iyear", "region_txt")), S)
             o2 == SetFig(o1, "attack_region_y_factors", Col(d, S, "region_txt"))
         IN  SetFig(o2, "attack_region_x_range",
                    <<SetMin(Col(d, S, "iyear")) - 1, SetMax(Col(d, S, "iyear")) + 1>>)

update_suicide_trend(d, g, w, S, o) ==
    IF S = {}
    THEN PublishCleared(o, "suicide_trend_source", S)
    ELSE SetFig(Publish(o, "suicide_trend_source", {"year", "rate"},
                        Cardinality(Col(d, S, "iyear")), S),
                "suicide_trend_x_range",
                <<SetMin(Col(d, S, "iyear")), SetMax(Col(d, S, "iyear"))>>)

update_tactic_success(d, g, w, S, o) ==
    IF S = {}
    THEN SetFig(PublishCleared(o, "tactic_success_source", S), "tactic_success_factors", {})
    ELSE SetFig(Publish(o, "tactic_success_source", {"attack", "rate", "color"},
                        Cardinality(Col(d, S, "attacktype1_txt")), S),
                "tactic_success_factors", Col(d, S, "attacktype1_txt"))

update_region_share(d, g, w, S, o) ==
    IF S = {}
    THEN Publish(o, "region_share_source", {"decade"}, 0, S)
    ELSE SetFig(Publish(o, "region_share_source", {"decade"} \cup Range(g.regions),
                        Cardinality(Col(d, S, "decade")), S),
                "region_share_factors", Col(d, S, "decade"))

\* Share of the pinned categories per year (attack share, target percent)
pinned_share(d, S, o, name, f, pinned) ==
    IF S = {}
    THEN Publish(o, name, {"year"}, 0, S)
    ELSE pinned_pivot(d, S, o, name, f, pinned)

update_attack_share(d, g, w, S, o) ==
    pinned_share(d, S, o, "attack_share_source", "attacktype1_txt", g.top_attack_types)

update_attack_lethality(d, g, w, S, o) ==
    Publish(o, "attack_lethality_source", lethality_keys,
            Cardinality(Col(d, S, "attacktype1_txt")), S)

update_target_percent(d, g, w, S, o) ==
    pinned_share(d, S, o, "target_percent_source", "targtype1_txt", g.top_target_types)

\* min(all_y) - gap and max(all_y) + gap with gap = 1.8, in tenths
sankey_range(n_attacks, n_targets) ==
    <<-18, 18 * (Max2(Max2(n_attacks, n_targets), 2) - 1) + 18>>

update_sankey(d, g, w, S, o) ==
    IF S = {}
    THEN Publish(Publish(o, "sankey_edge_source", sankey_edge_keys, 0, S),
                 "sankey_node_source", sankey_node_keys, 0, S)
    ELSE LET top_attacks == TopByCount(d, S, "attacktype1_txt", SankeyN)
             top_targets == TopByCount(d, S, "targtype1_txt", SankeyN)
             outcomes == {"Successful", "Failed"}
             attack_target ==
                 {p \in Pairs(d, S, "attacktype1_txt", "targtype1_txt") :
                     p[1] \in top_attacks /\ p[2] \in top_targets}
             target_outcome ==
                 {p \in Pairs(d, S, "targtype1_txt", "success_flag") :
                     p[1] \in top_targets /\ p[2] \in outcomes}
             o1 == SetFig(o, "sankey_y_range",
                          sankey_range(Cardinality(top_attacks), Cardinality(top_targets)))
             \* x, y, name, color grow in the loops over the node lists; value
             \* and type in the loops over range(len(...)) of the same lists
             o2 == PublishColumns(o1, "sankey_node_source",
                       [c \in sankey_node_keys |->
                           IF c \in {"value", "type"}
                           THEN Cardinality(top_attacks) + Cardinality(top_targets)
                                    + Cardinality(outcomes)
                           ELSE Cardinality(top_attacks) + Cardinality(top_targets)
                                    + Len(<<"Successful", "Failed">>)], S)
         IN  Publish(o2, "sankey_edge_source", sankey_edge_keys,
                     Cardinality(attack_target) + Cardinality(target_outcome), S)

update_org_network(d, g, w, S, o) ==
    LET filtered == {i \in S : d[i].gname \in g.top_orgs}
        nodes == {<<"ORG", x>> : x \in g.top_orgs}
                 \cup {<<"REG", r>> : r \in Col(d, filtered, "region_txt")}
        edges == Pairs(d, filtered, "gname", "region_txt")
    IN  IF filtered = {}
        THEN SetFig(Publish(Publish(o, "org_graph_nodes", org_node_keys, 0, S),
                            "org_graph_edges", org_edge_keys, 0, S),
                    "org_graph_layout", {})
        ELSE SetFig(Publish(Publish(o, "org_graph_nodes", org_node_keys,
                                    Cardinality(nodes), S),
                            "org_graph_edges", org_edge_keys, Cardinality(edges), S),
                    "org_graph_layout", nodes)

update_org_split(d, g, w, S, o) ==
    Publish(o, "org_split_source", {"year", "organized", "unorganized"},
            Cardinality(Col(d, S, "iyear")), S)

\* float(grouped["avg_casualties"].max() * 1.2), as a fraction
update_severity_dual(d, g, w, S, o) ==
    LET years == Col(d, S, "iyear")
        cas(y) == SumOf(d, Where(d, S, "iyear", y), "casualties")
        cnt(y) == Cardinality(Where(d, S, "iyear", y))
        top == CHOOSE y \in years : \A z \in years : cas(y) * cnt(z) >= cas(z) * cnt(y)
        o1 == Publish(o, "severity_dual_source", {"year", "incidents", "avg_casualties"},
                      Cardinality(years), S)
    IN  IF S = {} THEN o1
        ELSE SetFig(o1, "severity_avg_end", Fraction(12 * cas(top), 10 * cnt(top)))

update_table(d, g, w, S, o) ==
    IF S = {}
    THEN PublishCleared(o, "table_source", S)
    ELSE Publish(o, "table_source", table_keys, Min2(TableN, Cardinality(S)), S)

\* The numbers the summary cards show (the rates and averages are quotients
\* of these, 0 when there is no incident)
update_summary(d, g, w, S, o) ==
    [o EXCEPT !.summary =
        [text |-> <<[incidents |-> Cardinality(S),
                     fatalities |-> SumOf(d, S, "nkill"),
                     wounded |-> SumOf(d, S, "nwound"),
                     casualties |-> SumOf(d, S, "nkill") + SumOf(d, S, "nwound"),
                     successful |-> Cardinality(Where(d, S, "success_flag", "Successful")),
                     suicide |-> Cardinality(Where(d, S, "suicide_flag", "Suicide"))]>>,
         input |-> <<S>>]]

-----------------------------------------------------------------------------
(* update_dashboard *)

\* The same calls with update_map made after update_table
update_order_map_late ==
    <<"update_timeline", "update_country_bar", "update_attack_bar",
      "update_target_bar", "update_seasonality", "update_heatmap", "update_region_stack",
      "update_region_trend", "update_weapon_bar", "update_period_view", "update_hotspots",
      "update_attack_target_matrix", "update_weapon_share", "update_org_trend",
      "update_target_severity", "update_success_split", "update_boxplot", "update_scatter",
      "update_circle_view", "update_attack_region", "update_suicide_trend",
      "update_tactic_success", "update_region_share", "update_attack_share",
      "update_attack_lethality", "update_target_percent", "update_sankey",
      "update_org_network", "update_org_split", "update_severity_dual", "update_table", "update_map",
      "update_summary">>

\* The calls update_dashboard makes after filter_data, in order
update_order ==
    <<"update_map", "update_timeline", "update_country_bar", "update_attack_bar",
      "update_target_bar", "update_seasonality", "update_heatmap", "update_region_stack",
      "update_region_trend", "update_weapon_bar", "update_period_view", "update_hotspots",
      "update_attack_target_matrix", "update_weapon_share", "update_org_trend",
      "update_target_severity", "update_success_split", "update_boxplot", "update_scatter",
      "update_circle_view", "update_attack_region", "update_suicide_trend",
      "update_tactic_success", "update_region_share", "update_attack_share",
      "update_attack_lethality", "update_target_percent", "update_sankey",
      "update_org_network", "update_org_split", "update_severity_dual", "update_table",
      "update_summary">>

call(fn, d, g, w, S, o) ==
    CASE fn = "update_map" -> update_map(d, g, w, S, o)
      [] fn = "update_timeline" -> update_timeline(d, g, w, S, o)
      [] fn = "update_country_bar" -> update_country_bar(d, g, w, S, o)
      [] fn = "update_attack_bar" -> update_attack_bar(d, g, w, S, o)
      [] fn = "update_target_bar" -> update_target_bar(d, g, w, S, o)
      [] fn = "update_seasonality" -> update_seasonality(d, g, w, S, o)
      [] fn = "update_heatmap" -> update_heatmap(d, g, w, S, o)
      [] fn = "update_region_stack" -> update_region_stack(d, g, w, S, o)
      [] fn = "update_region_trend" -> update_region_trend(d, g, w, S, o)
      [] fn = "update_weapon_bar" -> update_weapon_bar(d, g, w, S, o)
      [] fn = "update_period_view" -> update_period_view(d, g, w, S, o)
      [] fn = "update_hotspots" -> update_hotspots(d, g, w, S, o)
      [] fn = "update_attack_target_matrix" -> update_attack_target_matrix(d, g, w, S, o)
      [] fn = "update_weapon_share" -> update_weapon_share(d, g, w, S, o)
      [] fn = "update_org_trend" -> update_org_trend(d, g, w, S, o)
      [] fn = "update_target_severity" -> update_target_severity(d, g, w, S, o)
      [] fn = "update_success_split" -> update_success_split(d, g, w, S, o)
      [] fn = "update_boxplot" -> update_boxplot(d, g, w, S, o)
      [] fn = "update_scatter" -> update_scatter(d, g, w, S, o)
      [] fn = "update_circle_view" -> update_circle_view(d, g, w, S, o)
      [] fn = "update_attack_region" -> update_attack_region(d, g, w, S, o)
      [] fn = "update_suicide_trend" -> update_suicide_trend(d, g, w, S, o)
      [] fn = "update_tactic_success" -> update_tactic_success(d, g, w, S, o)
      [] fn = "update_region_share" -> update_region_share(d, g, w, S, o)
      [] fn = "update_attack_share" -> update_attack_share(d, g, w, S, o)
      [] fn = "update_attack_lethality" -> update_attack_lethality(d, g, w, S, o)
      [] fn = "update_target_percent" -> update_target_percent(d, g, w, S, o)
      [] fn = "update_sankey" -> update_sankey(d, g, w, S, o)
      [] fn = "update_org_network" -> update_org_network(d, g, w, S, o)
      [] fn = "update_org_split" -> update_org_split(d, g, w, S, o)
      [] fn = "update_severity_dual" -> update_severity_dual(d, g, w, S, o)
      [] fn = "update_table" -> update_table(d, g, w, S, o)
      [] fn = "update_summary" -> update_summary(d, g, w, S, o)

\* The calls that raise instead of returning (nothing is assigned by them)
raises(fn, d, S) == fn = "update_map" /\ update_map_raises(d, S)

Called(fn, S) == [fn |-> fn, subset |-> S]

-----------------------------------------------------------------------------
(* Column values.  The rows a function assigns to its source, as a          *)
(* sequence of records in the published row order.  Quotients are exact:   *)
(* a pair <<n, m>> stands for n / m.                                        *)

\* The labels of the source files in Python's string order, the order in
\* which groupby (sort=True) and sorted() arrange keys.
LabelOrder ==
    <<"Afghanistan", "Airports & Aircraft", "Amritsar", "Armed Assault",
      "Assassination", "Baghdad", "Bangladesh", "Bhutan", "Biological",
      "Bombing/Explosion", "Business", "Chemical", "Colombo", "Delhi", "Dhaka", "ETA",
      "Educational Institution", "Explosives", "Fake Weapons", "Firearms", "France",
      "Government (General)", "Incendiary", "India", "Iraq", "Journalists & Media",
      "Kabul", "Karachi", "Kathmandu", "LTTE", "Lagos", "Lahore", "Lima", "Maldives",
      "Male", "Mauritius", "Melee", "Middle East & North Africa", "Military", "Mumbai",
      "NGO", "Nepal", "Nigeria", "Other", "Pakistan", "Paris", "Peru", "Police",
      "Port Louis", "Private Citizens & Property", "Radiological",
      "Religious Figures/Institutions", "Sabotage Equipment", "Shining Path (SL)",
      "South America", "South Asia", "Sri Lanka", "Sub-Saharan Africa", "Thimphu",
      "Tourists", "Transportation", "Unknown", "Unknown attack", "Unknown city",
      "Unknown country", "Unknown group", "Unknown region", "Unknown target",
      "Unknown weapon", "Utilities", "Western Europe">>

sorted_labels(C) == SeqFilter(LabelOrder, C)

\* The ascending sequence of a set of integers (sorted years, frame index)
sorted_ints(T) == SortedValues(T, [x \in T |-> x])

\* sort_values(col, ascending=False): rows with equal keys keep the order
\* they have in the frame (the frames here are far below the length at which
\* numpy's default sort stops being an insertion sort).
RECURSIVE sort_values_desc(_, _)
sort_values_desc(rows, col) ==
    IF rows = <<>> THEN <<>>
    ELSE LET m == SetMax({rows[k][col] : k \in DOMAIN rows})
         IN  SelectSeq(rows, LAMBDA x : x[col] = m)
                 \o sort_values_desc(SelectSeq(rows, LAMBDA x : x[col] # m), col)

\* the bars with the casualties column aggregated from nkill alone
group_bar_rows_kills_only(d, S, f, rank, N) ==
    LET groups == sorted_labels(Col(d, S, f))
    IN  Take(sort_values_desc(
                 [k \in DOMAIN groups |->
                     [key |-> groups[k],
                      incidents |-> CountOf(d, S, f, groups[k]),
                      casualties |-> SumOf(d, Where(d, S, f, groups[k]), "nkill")]],
                 rank),
             N)

\* the bars truncated before they are sorted
group_bar_rows_head_first(d, S, f, rank, N) ==
    LET groups == sorted_labels(Col(d, S, f))
    IN  sort_values_desc(
            Take([k \in DOMAIN groups |->
                     [key |-> groups[k],
                      incidents |-> CountOf(d, S, f, groups[k]),
                      casualties |-> SumOf(d, Where(d, S, f, groups[k]), "casualties")]],
                 N),
            rank)

\* groupby(f).agg(incidents=count, casualties=sum).sort_values(rank).head(N)
\* (country, target and weapon bars)
group_bar_rows(d, S, f, rank, N) ==
    LET groups == sorted_labels(Col(d, S, f))
    IN  Take(sort_values_desc(
                 [k \in DOMAIN groups |->
                     [key |-> groups[k],
                      incidents |-> CountOf(d, S, f, groups[k]),
                      casualties |-> SumOf(d, Where(d, S, f, groups[k]), "casualties")]],
                 rank),
             N)

\* update_hotspots: cities of the focus region by number of events
hotspot_rows(d, w, S) ==
    LET region_df == Where(d, S, "region_txt", w.hotspot_region_select)
        cities == sorted_labels(Col(d, region_df, "city"))
    IN  Take(sort_values_desc(
                 [k \in DOMAIN cities |->
                     [city |-> cities[k],
                      events |-> CountOf(d, region_df, "city", cities[k]),
                      avg_casualties |->
                          Fraction(SumOf(d, Where(d, region_df, "city", cities[k]), "casualties"),
                                   CountOf(d, region_df, "city", cities[k]))]],
                 "events"),
             HotspotN)

\* subset.sort_values("casualties", ascending=False).head(N): the rows behind
\* the event markers of the timeline (N = 8) and the scatter plot (N = 500),
\* with the frame index of each
ranked_rows(d, S, N) ==
    LET frame == sorted_ints(S)
    IN  Take(sort_values_desc(
                 [k \in DOMAIN frame |->
                     [index |-> frame[k],
                      year |-> d[frame[k]].iyear,
                      country_txt |-> d[frame[k]].country_txt,
                      city |-> d[frame[k]].city,
                      attacktype |-> d[frame[k]].attacktype1_txt,
                      fatalities |-> d[frame[k]].nkill,
                      wounded |-> d[frame[k]].nwound,
                      casualties |-> d[frame[k]].casualties]],
                 "casualties"),
             N)

\* update_table: the rows of the subset by casualties (event_date, a
\* formatted copy of the date, is left out)
table_rows(d, S) ==
    LET frame == sorted_ints(S)
    IN  Take(sort_values_desc(
                 [k \in DOMAIN frame |->
                     [country_txt |-> d[frame[k]].country_txt,
                      city |-> d[frame[k]].city,
                      attacktype1_txt |-> d[frame[k]].attacktype1_txt,
                      targtype1_txt |-> d[frame[k]].targtype1_txt,
                      nkill |-> d[frame[k]].nkill,
                      nwound |-> d[frame[k]].nwound,
                      casualties |-> d[frame[k]].casualties]],
                 "casualties"),
             TableN)

\* update_region_trend: one line per selected region, one point per year of
\* the region's rows
region_trend_rows(d, S) ==
    LET selected == group_bar_rows(d, S, "region_txt", "casualties", RegionTrendN)
    IN  [k \in DOMAIN selected |->
            [legend |-> selected[k].key,
             xs |-> sorted_ints(Col(d, Where(d, S, "region_txt", selected[k].key), "iyear")),
             ys |-> [j \in DOMAIN sorted_ints(Col(d, Where(d, S, "region_txt", selected[k].key),
                                                  "iyear")) |->
                        SumOf(d, Where(d, Where(d, S, "region_txt", selected[k].key), "iyear",
                                       sorted_ints(Col(d, Where(d, S, "region_txt",
                                                                selected[k].key), "iyear"))[j]),
                              "casualties")]]]

\* the row totals taken over the whole frame instead of along each row
row_totals_whole_frame(d, F, y) == replace01(Cardinality(F))

\* totals = pivot.sum(axis=1).replace(0, 1): the total of the row of year y
\* of the pivot of the rows F
row_totals(d, F, y) == replace01(Cardinality(Where(d, F, "iyear", y)))

\* update_weapon_share, update_attack_share, update_target_percent: one row
\* per year of the rows in a pinned category, one share per pinned category
share_rows(d, S, f, pinned) ==
    LET filtered == {i \in S : d[i][f] \in pinned}
        years == sorted_ints(Col(d, filtered, "iyear"))
    IN  [k \in DOMAIN years |->
            [year |-> years[k],
             share |-> [c \in pinned |->
                           <<Cardinality({i \in filtered : d[i].iyear = years[k] /\ d[i][f] = c}),
                             row_totals(d, filtered, years[k])>>]]]

\* update_region_share: incidents / transform("sum") per decade, 0.0 for a
\* region without rows in the decade
region_share_rows(d, g, S) ==
    LET decades == sorted_ints(Col(d, S, "decade"))
    IN  [k \in DOMAIN decades |->
            [year |-> decades[k],
             share |-> [r \in Range(g.regions) |->
                           IF \E i \in S : d[i].decade = decades[k] /\ d[i].region_txt = r
                           THEN <<Cardinality({i \in S : d[i].decade = decades[k]
                                                         /\ d[i].region_txt = r}),
                                  Cardinality(Where(d, S, "decade", decades[k]))>>
                           ELSE <<0, 1>>]]]

\* The rows of the split: category, incidents and percent = counts / total
\* * 100 for Successful and Failed, in the order of the reindex
success_split_rows(d, S) ==
         [k \in 1..2 |->
            [category |-> <<"Successful", "Failed">>[k],
             incidents |-> CountOf(d, S, "success_flag", <<"Successful", "Failed">>[k]),
             percent |-> <<100 * CountOf(d, S, "success_flag", <<"Successful", "Failed">>[k]),
                           CountOf(d, S, "success_flag", "Successful")
                               + CountOf(d, S, "success_flag", "Failed")>>]]

\* the split published whenever the subset has rows
success_rows_no_total_check(d, S) == IF S = {} THEN <<>> ELSE success_split_rows(d, S)

\* update_success_split: every column is empty when the subset is empty or
\* the total of the two counts is 0
success_rows(d, S) ==
    IF S = {} \/ CountOf(d, S, "success_flag", "Successful")
                     + CountOf(d, S, "success_flag", "Failed") = 0
    THEN <<>>
    ELSE success_split_rows(d, S)

\* Series.quantile(k/4) of the ascending values v, in quarters: linear
\* interpolation between the order statistics around (n - 1) * k / 4
quantile_quarters(v, k) ==
    LET lo == (((Len(v) - 1) * k) \div 4) + 1
        hi == Min2(lo + 1, Len(v))
    IN  4 * v[lo] + (((Len(v) - 1) * k) % 4) * (v[hi] - v[lo])

\* the whisker end without the clamp to the smallest value
lower_whisker_unclamped(vmin, q1, q3) == 2 * q1 - 3 * (q3 - q1)

\* max(clean.min(), q1 - 1.5 * iqr) in eighths, for q1 and q3 in quarters
lower_whisker(vmin, q1, q3) == Max2(8 * vmin, 2 * q1 - 3 * (q3 - q1))

\* min(clean.max(), q3 + 1.5 * iqr) in eighths
upper_whisker(vmax, q1, q3) == Min2(8 * vmax, 2 * q3 + 3 * (q3 - q1))

\* the statistics of one region from its ascending nkill values, in eighths
boxplot_stats(region, v) ==
    [region |-> abbrev(region),
     region_full |-> region,
     q1 |-> 2 * quantile_quarters(v, 1),
     q2 |-> 2 * quantile_quarters(v, 2),
     q3 |-> 2 * quantile_quarters(v, 3),
     lower |-> lower_whisker(v[1], quantile_quarters(v, 1), quantile_quarters(v, 3)),
     upper |-> upper_whisker(v[Len(v)], quantile_quarters(v, 1), quantile_quarters(v, 3))]

\* update_boxplot: one row per region of the subset (nkill has no null after
\* load_data, so no region is skipped), sorted by region_full
boxplot_rows(d, S) ==
    LET rs == sorted_labels(Col(d, S, "region_txt"))
    IN  [k \in DOMAIN rs |->
            boxplot_stats(rs[k],
                          SortedValues(Where(d, S, "region_txt", rs[k]),
                                       [i \in Where(d, S, "region_txt", rs[k]) |-> d[i].nkill])) ]

\* a layout drawn from the global generator
spring_layout_unseeded(G, rng) == [pos |-> <<G, rng>>, rng |-> rng + 1]

\* nx.spring_layout(G, seed=42, k=0.7, scale=1.8): the positions are a
\* function of the graph and of the seed; a seeded call draws nothing from
\* the global generator.
spring_layout(G, rng) == [pos |-> <<G, 42>>, rng |-> rng]

\* update_org_network: the node list (organisations, then regions sorted),
\* the edges in groupby order with weight 2 + 8 * incidents / max_val
org_graph_rows(d, g, S) ==
    LET filtered == {i \in S : d[i].gname \in g.top_orgs}
        es == SelectSeq(sorted_labels(g.top_orgs),
                        LAMBDA x : Where(d, filtered, "gname", x) # {})
        pairs(o) == sorted_labels(Col(d, Where(d, filtered, "gname", o), "region_txt"))
        n(o, r) == Cardinality({i \in filtered : d[i].gname = o /\ d[i].region_txt = r})
        max_val == SetMax({n(d[i].gname, d[i].region_txt) : i \in filtered})
        edges_of(o) == [j \in DOMAIN pairs(o) |->
                           [start |-> <<"ORG", o>>, end |-> <<"REG", pairs(o)[j]>>,
                            line_width |-> <<2 * max_val + 8 * n(o, pairs(o)[j]), max_val>>]]
        concat[k \in 0..Len(es)] ==
            IF k = 0 THEN <<>> ELSE concat[k - 1] \o edges_of(es[k])
    IN  IF filtered = {} THEN [nodes |-> <<>>, edges |-> <<>>]
        ELSE [nodes |-> [orgs |-> g.top_orgs,
                         regions |-> sorted_labels(Col(d, filtered, "region_txt"))],
              edges |-> concat[Len(es)]]

\* The graph sources and the layout provider after update_org_network
org_graph_after(G, o) ==
    IF G.nodes = <<>>
    THEN [o EXCEPT !.val.org_graph = [nodes |-> <<>>, edges |-> <<>>, layout |-> <<>>]]
    ELSE [o EXCEPT !.val.org_graph = [nodes |-> G.nodes, edges |-> G.edges,
                                      layout |-> spring_layout(G, o.rng).pos],
                   !.rng = spring_layout(G, o.rng).rng]

\* The pairs of two key sequences, the first key varying slowest: the order
\* groupby gives the groups of two columns
cross(a, b) ==
    [k \in 1..(Len(a) * Len(b)) |->
        <<a[((k - 1) \div Len(b)) + 1], b[((k - 1) % Len(b)) + 1]>>]

\* the palette scaled by len(Turbo256) instead of len(Turbo256) - 1
build_palette_by_length(values) ==
    LET vmin == SetMin(Range(values))
        vmax == SetMax(Range(values))
    IN  IF values = <<>> THEN <<>>
        ELSE IF vmin = vmax THEN [k \in DOMAIN values |-> <<"#ffcc00">>]
        ELSE [k \in DOMAIN values |->
                 <<"Turbo256", ((values[k] - vmin) * Turbo256Len) \div (vmax - vmin)>>]

\* build_palette: [] for no values, "#ffcc00" for each when vmin == vmax,
\* else Turbo256[int((v - vmin) / (vmax - vmin) * (len(Turbo256) - 1))]; the
\* entry of the palette is kept as its index
build_palette(values) ==
    LET vmin == SetMin(Range(values))
        vmax == SetMax(Range(values))
    IN  IF values = <<>> THEN <<>>
        ELSE IF vmin = vmax THEN [k \in DOMAIN values |-> <<"#ffcc00">>]
        ELSE [k \in DOMAIN values |->
                 <<"Turbo256", ((values[k] - vmin) * (Turbo256Len - 1)) \div (vmax - vmin)>>]

\* update_heatmap: groupby(["region_txt", "decade"]) summing casualties,
\* coloured by build_palette
heatmap_rows(d, S) ==
    LET groups == SelectSeq(cross(sorted_labels(Col(d, S, "region_txt")),
                                  sorted_ints(Col(d, S, "decade"))),
                            LAMBDA p : p \in Pairs(d, S, "region_txt", "decade"))
        heat_df == [k \in DOMAIN groups |->
                       [decade |-> groups[k][2], region |-> groups[k][1],
                        casualties |-> SumOf(d, Where(d, Where(d, S, "region_txt", groups[k][1]),
                                                      "decade", groups[k][2]), "casualties")]]
    IN  [k \in DOMAIN heat_df |->
            [decade |-> heat_df[k].decade, region |-> heat_df[k].region,
             casualties |-> heat_df[k].casualties,
             color |-> build_palette([j \in DOMAIN heat_df |-> heat_df[j].casualties])[k]]]

\* the dominant attack types taken with head(1) from the unsorted counts
attack_region_rows_unsorted(d, S) ==
    LET groups == SelectSeq(cross(cross(sorted_ints(Col(d, S, "iyear")),
                                        sorted_labels(Col(d, S, "region_txt"))),
                                  sorted_labels(Col(d, S, "attacktype1_txt"))),
                            LAMBDA t : \E i \in S : /\ d[i].iyear = t[1][1]
                                                    /\ d[i].region_txt = t[1][2]
                                                    /\ d[i].attacktype1_txt = t[2])
        agg == [k \in DOMAIN groups |->
                   [year |-> groups[k][1][1], region |-> groups[k][1][2],
                    attack |-> groups[k][2],
                    incidents |-> Cardinality({i \in S : /\ d[i].iyear = groups[k][1][1]
                                                         /\ d[i].region_txt = groups[k][1][2]
                                                         /\ d[i].attacktype1_txt = groups[k][2]})]]
        ranked == agg
        first == {k \in DOMAIN ranked :
                     \A j \in 1..(k - 1) : <<ranked[j].year, ranked[j].region>>
                                               # <<ranked[k].year, ranked[k].region>>}
    IN  [n \in 1..Cardinality(first) |-> ranked[sorted_ints(first)[n]]]

\* update_attack_region: the counts per (iyear, region_txt, attacktype1_txt),
\* sort_values("incidents", ascending=False), then
\* groupby(["iyear", "region_txt"]).head(1): of each pair the first row of
\* the sorted frame, in the order of that frame
attack_region_rows(d, S) ==
    LET groups == SelectSeq(cross(cross(sorted_ints(Col(d, S, "iyear")),
                                        sorted_labels(Col(d, S, "region_txt"))),
                                  sorted_labels(Col(d, S, "attacktype1_txt"))),
                            LAMBDA t : \E i \in S : /\ d[i].iyear = t[1][1]
                                                    /\ d[i].region_txt = t[1][2]
                                                    /\ d[i].attacktype1_txt = t[2])
        agg == [k \in DOMAIN groups |->
                   [year |-> groups[k][1][1], region |-> groups[k][1][2],
                    attack |-> groups[k][2],
                    incidents |-> Cardinality({i \in S : /\ d[i].iyear = groups[k][1][1]
                                                         /\ d[i].region_txt = groups[k][1][2]
                                                         /\ d[i].attacktype1_txt = groups[k][2]})]]
        ranked == sort_values_desc(agg, "incidents")
        first == {k \in DOMAIN ranked :
                     \A j \in 1..(k - 1) : <<ranked[j].year, ranked[j].region>>
                                               # <<ranked[k].year, ranked[k].region>>}
    IN  [n \in 1..Cardinality(first) |-> ranked[sorted_ints(first)[n]]]

\* the groups without the reindex: only the categories the subset holds
reindex_rows_observed(d, S, f, index) ==
    LET present == SelectSeq(index, LAMBDA c : c \in Col(d, S, f))
    IN  [k \in DOMAIN present |->
            [key |-> present[k],
             count |-> CountOf(d, S, f, present[k]),
             casualties |-> SumOf(d, Where(d, S, f, present[k]), "casualties")]]

\* groupby(f, observed=False).agg(count, sum of casualties).reindex(index)
\* with the missing groups filled with 0: one row per entry of index, in its
\* order
reindex_rows(d, S, f, index) ==
    [k \in DOMAIN index |->
        [key |-> index[k],
         count |-> CountOf(d, S, f, index[k]),
         casualties |-> SumOf(d, Where(d, S, f, index[k]), "casualties")]]

\* update_target_severity: groupby("targtype1_txt") summing nkill and nwound,
\* .reindex(top_target_types).fillna(0); the rows are kept by target
severity_rows(d, g, S) ==
    [t \in g.top_target_types |->
        [killed |-> SumOf(d, Where(d, S, "targtype1_txt", t), "nkill"),
         wounded |-> SumOf(d, Where(d, S, "targtype1_txt", t), "nwound")]]

\* source.data = ...: the column values a call assigns
publish_values(fn, d, g, w, S, o) ==
    CASE fn = "update_country_bar" ->
            [o EXCEPT !.val.country_source = group_bar_rows(d, S, "country_txt", "casualties", CountryN)]
      [] fn = "update_target_bar" ->
            [o EXCEPT !.val.target_source = group_bar_rows(d, S, "targtype1_txt", "casualties", TargetN)]
      [] fn = "update_weapon_bar" ->
            [o EXCEPT !.val.weapon_source = group_bar_rows(d, S, "weaptype1_txt", "incidents", WeaponN)]
      [] fn = "update_hotspots" -> [o EXCEPT !.val.hotspot_source = hotspot_rows(d, w, S)]
      [] fn = "update_table" -> [o EXCEPT !.val.table_source = table_rows(d, S)]
      [] fn = "update_region_trend" ->
            [o EXCEPT !.val.region_trend_source = region_trend_rows(d, S)]
      [] fn = "update_weapon_share" ->
            [o EXCEPT !.val.weapon_share_source =
                          share_rows(d, S, "weaptype1_txt", g.top_weapon_types)]
      [] fn = "update_attack_share" ->
            [o EXCEPT !.val.attack_share_source =
                          share_rows(d, S, "attacktype1_txt", g.top_attack_types)]
      [] fn = "update_target_percent" ->
            [o EXCEPT !.val.target_percent_source =
                          share_rows(d, S, "targtype1_txt", g.top_target_types)]
      [] fn = "update_region_share" ->
            [o EXCEPT !.val.region_share_source = region_share_rows(d, g, S)]
      [] fn = "update_success_split" -> [o EXCEPT !.val.success_source = success_rows(d, S)]
      [] fn = "update_boxplot" -> [o EXCEPT !.val.boxplot_source = boxplot_rows(d, S)]
      [] fn = "update_org_network" -> org_graph_after(org_graph_rows(d, g, S), o)
      [] fn = "update_heatmap" -> [o EXCEPT !.val.heatmap_source = heatmap_rows(d, S)]
      [] fn = "update_seasonality" ->
            [o EXCEPT !.val.season_source =
                          IF S = {} THEN <<>> ELSE reindex_rows(d, S, "month_name", MONTH_ORDER)]
      [] fn = "update_period_view" ->
            [o EXCEPT !.val.period_source =
                          IF {i \in S : d[i].period # NaN} = {} THEN <<>>
                          ELSE reindex_rows(d, {i \in S : d[i].period # NaN}, "period",
                                            PERIOD_LABELS)]
      [] fn = "update_target_severity" ->
            [o EXCEPT !.val.severity_source = IF S = {} THEN <<>> ELSE severity_rows(d, g, S)]
      [] fn = "update_timeline" ->
            [o EXCEPT !.val.timeline_events_source = ranked_rows(d, S, TimelineEventsN)]
      [] fn = "update_scatter" ->
            [o EXCEPT !.val.scatter_source = ranked_rows(d, S, ScatterN)]
      [] fn = "update_attack_region" ->
            [o EXCEPT !.val.attack_region_source = attack_region_rows(d, S)]
      [] OTHER -> o

\* update_region_share with its `data` bound to the module-level name and
\* the decade column written into the frame it is given
dataset_after_shared_frame(fn, d, S) ==
    IF fn = "update_region_share"
    THEN [i \in DOMAIN d |-> IF i \in S THEN [d[i] EXCEPT !.decade = @ + 1] ELSE d[i]]
    ELSE d

\* The module-level dataset after a call.  filter_data narrows data.copy()
\* and every boolean selection is a new frame; update_region_share adds its
\* decade column to subset.copy() and its `data` is a local dict; no
\* function assigns the global or writes into the frame it is given.
dataset_after(fn, d, S) == d

\* update_map putting the highlight selector back to "None"
widgets_after_highlight_cleared(fn, w) ==
    IF fn = "update_map" THEN [w EXCEPT !.highlight_region_select = "None"] ELSE w

\* The widget values after a call: filter_data and the update_* functions
\* read `.value` and never assign it.
widgets_after(fn, w) == w

\* A run so far: the module state it works on, the outputs, the calls made,
\* whether an exception ended it
Run(d, w, o, calls) == [data |-> d, w |-> w, out |-> o, calls |-> calls, raised |-> FALSE]

\* One call of the body of update_dashboard
run_call(fn, g, S, r) ==
    IF raises(fn, r.data, S)
    THEN [r EXCEPT !.calls = Append(@, Called(fn, S)), !.raised = TRUE]
    ELSE [data |-> dataset_after(fn, r.data, S),
          w |-> widgets_after(fn, r.w),
          out |-> publish_values(fn, r.data, g, r.w, S, call(fn, r.data, g, r.w, S, r.out)),
          calls |-> Append(r.calls, Called(fn, S)),
          raised |-> FALSE]

\* The calls from position k on: an exception ends the run where it is raised
RECURSIVE run_calls(_, _, _, _)
run_calls(k, g, S, r) ==
    IF k > Len(update_order) \/ r.raised THEN r
    ELSE run_calls(k + 1, g, S, run_call(update_order[k], g, S, r))

\* One run: the module state and the outputs after it, and its record (the
\* widget values it read, the subset filter_data returned, the calls made,
\* whether it raised, the widget values and the column values when it ended)
run_record(w, subset, r) ==
    [out |-> r.out, data |-> r.data, w |-> r.w,
     run |-> [state |-> w, subset |-> subset, calls |-> r.calls, raised |-> r.raised,
              after |-> r.w, val |-> r.out.val]]

\* The body of update_dashboard after subset = filter_data()
run_on(d, g, w, o, subset) ==
    run_record(w, subset,
               run_calls(1, g, subset,
                         Run(dataset_after("filter_data", d, subset),
                             widgets_after("filter_data", w),
                             [o EXCEPT !.cache = frame_read(@)],
                             <<Called("filter_data", subset)>>)))

update_dashboard(d, g, w, o) == run_on(d, g, w, o, filter_data(d, w))

-----------------------------------------------------------------------------
(* Handlers.  A handler state is the dataset, the widget values, the        *)
(* outputs, the runs of update_dashboard made so far and whether an         *)
(* exception has ended it.                                                  *)

Handler(d, w, o) == [data |-> d, w |-> w, o |-> o, runs |-> <<>>, raised |-> FALSE]

\* trigger_update(attr, old, new)
\* The handler after a run r of update_dashboard
after_run(h, r) ==
    [h EXCEPT !.data = r.data, !.w = r.w, !.o = r.out,
              !.runs = Append(@, r.run), !.raised = r.run.raised]

trigger_update(g, h) == after_run(h, update_dashboard(h.data, g, h.w, h.o))

\* widget.value = v: a property that changes calls the widget's on_change
\* callbacks before the assignment returns; an equal value changes nothing.
\* After an exception no further statement of the handler runs.
set_value(g, h, name, v) ==
    IF h.raised \/ h.w[name] = v THEN h
    ELSE LET h1 == [h EXCEPT !.w[name] = v]
         IN  IF name \in registered_widgets THEN trigger_update(g, h1) ELSE h1

ResetYearFloor == 1990
ResetQuantilePct == 95

\* The assignments of reset_filters with the year range reset to the full span
reset_values_full_span(d, g) ==
    << <<"year_slider", <<g.year_min, g.year_max>> >>,
       <<"region_select", Range(g.regions)>>,
       <<"attack_select", g.attack_types>>,
       <<"target_select", g.target_types>>,
       <<"fatality_slider", <<0, quantile_int(d, "nkill", ResetQuantilePct)>> >>,
       <<"casualty_slider", <<0, quantile_int(d, "casualties", ResetQuantilePct)>> >>,
       <<"success_select", "All">>,
       <<"suicide_select", "All">>,
       <<"highlight_region_select", "None">> >>
    \o (IF g.hotspot_regions # <<>>
        THEN << <<"hotspot_region_select", g.hotspot_regions[1]>> >>
        ELSE <<>>)

\* The assignments of reset_filters, in order
reset_values(d, g) ==
    << <<"year_slider", <<Max2(g.year_min, ResetYearFloor), g.year_max>> >>,
       <<"region_select", Range(g.regions)>>,
       <<"attack_select", g.attack_types>>,
       <<"target_select", g.target_types>>,
       <<"fatality_slider", <<0, quantile_int(d, "nkill", ResetQuantilePct)>> >>,
       <<"casualty_slider", <<0, quantile_int(d, "casualties", ResetQuantilePct)>> >>,
       <<"success_select", "All">>,
       <<"suicide_select", "All">>,
       <<"highlight_region_select", "None">> >>
    \o (IF g.hotspot_regions # <<>>
        THEN << <<"hotspot_region_select", g.hotspot_regions[1]>> >>
        ELSE <<>>)

\* The assignments from position k on, each evaluated when it is reached
RECURSIVE assign_all(_, _, _)
assign_all(g, h, k) ==
    IF k > Len(reset_values(h.data, g)) THEN h
    ELSE assign_all(g, set_value(g, h, reset_values(h.data, g)[k][1],
                                 reset_values(h.data, g)[k][2]),
                    k + 1)

\* The closing update_dashboard() of reset_filters
reset_refresh(g, h) == IF h.raised THEN h ELSE trigger_update(g, h)

reset_filters(g, h) == reset_refresh(g, assign_all(g, h, 1))

-----------------------------------------------------------------------------
(* The state machine *)

Event(kind, widget, h) == [kind |-> kind, widget |-> widget, runs |-> h.runs, raised |-> h.raised]

\* The state a handler leaves when it returns (or is ended by an exception)
Served(kind, widget, h) ==
    /\ data' = h.data
    /\ widgets' = h.w
    /\ out' = h.o
    /\ log' = Event(kind, widget, h)

\* The state the module-level update_dashboard() leaves: an exception there
\* ends the start of the application
Started(h) ==
    /\ data' = h.data
    /\ widgets' = h.w
    /\ out' = h.o
    /\ log' = Event("startup", "", h)
    /\ pc' = IF h.raised THEN "failed" ELSE "serving"

Init ==
    /\ \E raw \in RawDatasets : data = load_data(raw)
    /\ globals = module_globals(data)
    /\ widgets = widget_values(data, globals)
    /\ out = construction(globals)
    /\ pc = "startup"
    /\ ui_events = 0
    /\ log = [kind |-> "construction", widget |-> "", runs |-> <<>>, raised |-> FALSE]

\* update_dashboard() at the end of the module
Startup ==
    /\ pc = "startup"
    /\ Started(trigger_update(globals, Handler(data, widgets, out)))
    /\ UNCHANGED <<globals, ui_events>>

\* The user moves a slider or changes a selection
ControlChange(name, v) ==
    /\ pc = "serving"
    /\ ui_events < MaxEvents
    /\ v # widgets[name]
    /\ Served("change", name, set_value(globals, Handler(data, widgets, out), name, v))
    /\ ui_events' = ui_events + 1
    /\ UNCHANGED <<globals, pc>>

\* reset_button.on_click(reset_filters)
ResetClick ==
    /\ pc = "serving"
    /\ ui_events < MaxEvents
    /\ Served("reset", "reset_button", reset_filters(globals, Handler(data, widgets, out)))
    /\ ui_events' = ui_events + 1
    /\ UNCHANGED <<globals, pc>>

Next ==
    \/ Startup
    \/ \E name \in registered_widgets :
          \E v \in widget_options(data, globals)[name] : ControlChange(name, v)
    \/ ResetClick

Spec == Init /\ [][Next]_vars

\* A year after the last period bin (row 2)
RawNew ==
    << RawRow(1, 2017, 4, 2, "India", "South Asia", "Delhi", "Delhi", <<28>>, <<77>>,
              <<1>>, <<0>>, "Armed Assault", "Police", "LTTE", "Firearms", <<0>>, <<0>>),
       RawRow(2, 2018, 5, 3, "India", "South Asia", "Mumbai", "Mumbai", <<19>>, <<72>>,
              <<1>>, <<0>>, "Bombing/Explosion", "Business", NaN, "Explosives", <<0>>, <<2>>) >>

\* The application on the larger source files, with the casualty slider, the
\* outcome selector and the hotspot selector in use
InitWide ==
    /\ \E raw \in {RawC, RawOld, RawNew} : data = load_data(raw)
    /\ globals = module_globals(data)
    /\ widgets = widget_values(data, globals)
    /\ out = construction(globals)
    /\ pc = "startup"
    /\ ui_events = 0
    /\ log = [kind |-> "construction", widget |-> "", runs |-> <<>>, raised |-> FALSE]

NextWide ==
    \/ Startup
    \/ \E name \in {"casualty_slider", "success_select", "hotspot_region_select"} :
          \E v \in widget_options(data, globals)[name] : ControlChange(name, v)

SpecWide == InitWide /\ [][NextWide]_vars

\* The application with the year slider and the two outcome selectors in
\* use, followed for one event more: two controls can be off their defaults
\* when Reset is clicked
ResetEvents == 3

FilterChange(name, v) ==
    /\ pc = "serving"
    /\ ui_events < ResetEvents
    /\ v # widgets[name]
    /\ Served("change", name, set_value(globals, Handler(data, widgets, out), name, v))
    /\ ui_events' = ui_events + 1
    /\ UNCHANGED <<globals, pc>>

LateReset ==
    /\ pc = "serving"
    /\ ui_events < ResetEvents
    /\ Served("reset", "reset_button", reset_filters(globals, Handler(data, widgets, out)))
    /\ ui_events' = ui_events + 1
    /\ UNCHANGED <<globals, pc>>

NextReset ==
    \/ Startup
    \/ \E name \in {"year_slider", "success_select", "suicide_select"} :
          \E v \in widget_options(data, globals)[name] : FilterChange(name, v)
    \/ LateReset

SpecReset == Init /\ [][NextReset]_vars

-----------------------------------------------------------------------------
(* Properties.  Filter State is the value of the eight filter widgets; the  *)
(* runs of the last event are in log.runs, in the order they were made.     *)

FilterParams ==
    {"year_slider", "region_select", "attack_select", "target_select",
     "fatality_slider", "casualty_slider", "success_select", "suicide_select"}

Runs == {log.runs[k] : k \in 1..Len(log.runs)}

LastRun == log.runs[Len(log.runs)]

\* The input every output was computed from, when it is the same for all
SameInput(o, inp) ==
    /\ \A name \in DOMAIN o.src : o.src[name].input = inp
    /\ o.summary.input = inp

\* A run that made every call of update_dashboard, in order, on its subset
FullRun(run) ==
    /\ ~run.raised
    /\ run.calls = <<Called("filter_data", run.subset)>>
                   \o [k \in 1..Len(update_order) |-> Called(update_order[k], run.subset)]

\* Row i passes every active predicate of Filter State w
Satisfies(d, i, w) ==
    /\ w.year_slider[1] <= d[i].iyear /\ d[i].iyear <= w.year_slider[2]
    /\ w.fatality_slider[1] <= d[i].nkill /\ d[i].nkill <= w.fatality_slider[2]
    /\ w.casualty_slider[1] <= d[i].casualties /\ d[i].casualties <= w.casualty_slider[2]
    /\ w.region_select # {} => d[i].region_txt \in w.region_select
    /\ w.attack_select # {} => d[i].attacktype1_txt \in w.attack_select
    /\ w.target_select # {} => d[i].targtype1_txt \in w.target_select
    /\ w.success_select # "All" => d[i].success_flag = w.success_select
    /\ w.suicide_select # "All" => d[i].suicide_flag = w.suicide_select

Qualifying(d, w) == {i \in Rows(d) : Satisfies(d, i, w)}

\* Every Filter State the widgets can be put in (the widgets that do not
\* filter keep the value they are constructed with)
FilterStates(d, g) ==
    LET opt == widget_options(d, g)
        w0 == widget_values(d, g)
    IN  [year_slider : opt.year_slider,
         region_select : opt.region_select,
         attack_select : opt.attack_select,
         target_select : opt.target_select,
         fatality_slider : opt.fatality_slider,
         casualty_slider : opt.casualty_slider,
         success_select : opt.success_select,
         suicide_select : opt.suicide_select,
         timeline_metric : {w0.timeline_metric},
         highlight_region_select : {w0.highlight_region_select},
         hotspot_region_select : {w0.hotspot_region_select}]

\* C1: for every dataset and every Filter State, filter_data returns exactly
\* the rows that satisfy all active predicates at once (inclusive ranges,
\* membership in each non-empty selection, flags equal to the selectors
\* unless "All"): no other row, no qualifying row omitted.  Checked for the
\* subset of every run made, and at startup for every Filter State the
\* widgets offer.
C1_FilterExact ==
    /\ \A run \in Runs : run.subset = Qualifying(data, run.state)
    /\ pc = "startup" =>
          \A w \in FilterStates(data, globals) : filter_data(data, w) = Qualifying(data, w)

\* A run whose subset is neither empty nor the whole dataset, made after the
\* user changed a filter
C1_Witness ==
    /\ log.kind = "change"
    /\ log.widget \in FilterParams
    /\ \E run \in Runs : run.subset # {} /\ run.subset # Rows(data)

\* C2: any single change of one registered control causes exactly one run of
\* update_dashboard, and that run recomputes every output.
C2_ChangeOneFullRun ==
    log.kind = "change" =>
        /\ Len(log.runs) = 1
        /\ FullRun(log.runs[1])
        /\ SameInput(out, <<log.runs[1].subset>>)

\* C3: one invocation of reset_filters restores the Filter State to its
\* startup defaults and causes exactly one run of update_dashboard.
C3_ResetOneRun ==
    log.kind = "reset" =>
        /\ \A name \in FilterParams : widgets[name] = widget_values(data, globals)[name]
        /\ Len(log.runs) = 1

\* C4: after reset_filters completes, every filter parameter has exactly the
\* value it had at process start.
C4_ResetRestoresDefaults ==
    (log.kind = "reset" /\ ~log.raised) =>
        \A name \in FilterParams : widgets[name] = widget_values(data, globals)[name]

\* A completed reset that changed the value of at least one widget (every
\* changed value makes a run of its own before the final one)
C4_Witness == log.kind = "reset" /\ ~log.raised /\ Len(log.runs) > 1

\* C5: each run of update_dashboard calls filter_data once and then every
\* aggregation once, in the fixed order, all on the same subset.
C5_EveryRunCallsAll == \A run \in Runs : FullRun(run)

AllSameInput(o) == SameInput(o, o.summary.input)

\* C6: a refresh is atomic with respect to the outputs.  In every state all
\* published sources and the summary carry values computed from one and the
\* same subset, and an event whose only run raised leaves every output as
\* it was.
C6_RefreshAtomic ==
    /\ AllSameInput(out)
    /\ [][/\ AllSameInput(out')
          /\ (log'.raised /\ Len(log'.runs) = 1) => out' = out]_vars

\* An event whose refresh did not complete
C6_Witness == pc = "serving" /\ log.raised /\ Len(log.runs) = 1

\* C7: on an empty subset every aggregation completes without raising and
\* publishes an empty output: every column of every source has length zero.
C7_EmptySubsetWellFormed ==
    /\ \A run \in Runs : run.subset = {} => FullRun(run)
    /\ (log.runs # <<>> /\ LastRun.subset = {}) =>
          \A name \in DOMAIN out.src :
             /\ out.src[name].input = <<{}>>
             /\ \A key \in DOMAIN out.src[name].cols : out.src[name].cols[key] = 0

\* A refresh made on an empty subset
C7_Witness == log.kind = "change" /\ log.runs # <<>> /\ LastRun.subset = {} /\ ~log.raised

PinnedShareSources == {"region_share_source", "attack_share_source", "target_percent_source"}

\* C8: the column names of a categorical group-by source are the same after
\* every refresh; stated for the region-share, attack-share and
\* target-percent sources, whose key set is the axis column plus one column
\* per pinned category.
C8_KeySetFixed ==
    pc = "serving" =>
        \A name \in PinnedShareSources : Keys(out, name) = Keys(construction(globals), name)

\* C9: after a completed refresh the outputs (sources and axis metadata) are
\* those computed from the current Filter State alone, as if no refresh had
\* been published before.
C9_OutputsFromFilterState ==
    (pc = "serving" /\ ~log.raised) =>
        out = update_dashboard(data, globals, widgets, construction(globals)).out

MultiSelects == {"region_select", "attack_select", "target_select"}

\* The values of the column a multi-select filters on
AllValues(g, name) ==
    CASE name = "region_select" -> Range(g.regions)
      [] name = "attack_select" -> g.attack_types
      [] name = "target_select" -> g.target_types

\* C10: an empty selection for regions, attack types or targets imposes no
\* restriction: filter_data returns the same subset as with the list of all
\* values of that column, all other parameters being equal.  Checked for
\* every run made with an empty selection, and at startup for every Filter
\* State the widgets offer.
C10_EmptySelectionNoRestriction ==
    /\ \A run \in Runs : \A name \in MultiSelects :
          run.state[name] = {} =>
             run.subset = filter_data(data, [run.state EXCEPT
                                                ![name] = AllValues(globals, name)])
    /\ pc = "startup" =>
          \A w \in FilterStates(data, globals) : \A name \in MultiSelects :
             filter_data(data, [w EXCEPT ![name] = {}])
                = filter_data(data, [w EXCEPT ![name] = AllValues(globals, name)])

\* A run made with an emptied selection that kept rows
C10_Witness ==
    /\ log.kind = "change"
    /\ log.widget \in MultiSelects
    /\ widgets[log.widget] = {}
    /\ \E run \in Runs : run.subset # {}

-----------------------------------------------------------------------------
C13_RunsCompleteBeforeNext ==
    [][ /\ \A k \in 1..(Len(log'.runs) - 1) : FullRun(log'.runs[k])
        /\ (log.runs # <<>> /\ log'.runs # <<>>) => FullRun(log.runs[Len(log.runs)])
        /\ \A k \in 1..Len(log'.runs) : log'.runs[k].after = log'.runs[k].state
      ]_vars

-----------------------------------------------------------------------------
\* The subset a source was last computed from ({} before the first refresh)
InputOf(name) == IF out.src[name].input = <<>> THEN {} ELSE out.src[name].input[1]

RECURSIVE ShareSum(_, _)
ShareSum(sh, C) ==
    IF C = {} THEN <<0, 1>>
    ELSE LET c == CHOOSE x \in C : TRUE
             rest == ShareSum(sh, C \ {c})
         IN  <<sh[c][1] * rest[2] + rest[1] * sh[c][2], sh[c][2] * rest[2]>>

\* A share row: every share is a quotient in [0, 1] with a non-zero
\* denominator, and the shares sum to 1 when the row has counted incidents
\* and to 0 when it has none
ShareRowOK(row, counted) ==
    /\ \A c \in DOMAIN row.share :
          row.share[c][2] > 0 /\ 0 <= row.share[c][1] /\ row.share[c][1] <= row.share[c][2]
    /\ ShareSum(row.share, DOMAIN row.share)[1]
           = IF counted > 0 THEN ShareSum(row.share, DOMAIN row.share)[2] ELSE 0

PinnedShares ==
    [weapon_share_source |-> <<"weaptype1_txt", globals.top_weapon_types>>,
     attack_share_source |-> <<"attacktype1_txt", globals.top_attack_types>>,
     target_percent_source |-> <<"targtype1_txt", globals.top_target_types>>]

C16_CasualtyTotals ==
    /\ \A k \in DOMAIN out.val.country_source :
          out.val.country_source[k].casualties
              = SetSum({i \in InputOf("country_source") :
                           data[i].country_txt = out.val.country_source[k].key},
                       [i \in Rows(data) |-> data[i].nkill + data[i].nwound])
    /\ Cardinality(Col(data, InputOf("country_source"), "country_txt")) <= CountryN
          => {out.val.country_source[k].key : k \in DOMAIN out.val.country_source}
                 = Col(data, InputOf("country_source"), "country_txt")
    /\ \A k \in DOMAIN out.val.region_trend_source :
          \A j \in DOMAIN out.val.region_trend_source[k].xs :
              out.val.region_trend_source[k].ys[j]
                  = SetSum({i \in InputOf("region_trend_source") :
                               /\ data[i].region_txt = out.val.region_trend_source[k].legend
                               /\ data[i].iyear = out.val.region_trend_source[k].xs[j]},
                           [i \in Rows(data) |-> data[i].nkill + data[i].nwound])

\* a country reported with 0 while one of its rows, with casualties, is
\* excluded by the filter, next to a country with a positive total
C16_Witness ==
    /\ \E k \in DOMAIN out.val.country_source :
          /\ out.val.country_source[k].casualties = 0
          /\ \E i \in Rows(data) \ InputOf("country_source") :
                /\ data[i].country_txt = out.val.country_source[k].key
                /\ data[i].casualties > 0
    /\ \E k \in DOMAIN out.val.country_source : out.val.country_source[k].casualties > 0

\* The text columns the aggregations group by
GroupColumns ==
    {"country_txt", "region_txt", "provstate", "city", "attacktype1_txt", "targtype1_txt",
     "gname", "weaptype1_txt"}

\* C17: after load_data no column that an aggregation groups by holds a
\* null, and the six-column grouping of update_map accounts for every
\* geocoded row of its input.
C17_NoNullGroupKeys ==
    /\ \A i \in Rows(data) : \A f \in GroupColumns : data[i][f] # NaN
    /\ \A run \in Runs :
          Cardinality({i \in geo_rows(data, run.subset) :
                          <<data[i].country_txt, data[i].region_txt, data[i].provstate,
                            data[i].city, data[i].latitude, data[i].longitude>>
                              \in map_groups(data, run.subset)})
              = Cardinality(geo_rows(data, run.subset))

\* C18: every loaded record has casualties = nkill + nwound with a null
\* count taken as 0, and nkill, nwound and casualties are not negative.
C18_CasualtiesIsSum ==
    \E raw \in RawDatasets :
        /\ DOMAIN raw = DOMAIN data
        /\ \A i \in Rows(data) :
              /\ data[i].nkill = (IF raw[i].nkill = <<>> THEN 0 ELSE raw[i].nkill[1])
              /\ data[i].nwound = (IF raw[i].nwound = <<>> THEN 0 ELSE raw[i].nwound[1])
              /\ data[i].casualties = data[i].nkill + data[i].nwound
              /\ data[i].nkill >= 0 /\ data[i].nwound >= 0 /\ data[i].casualties >= 0
              /\ data[i].eventid = raw[i].eventid

\* the loaded dataset has a record with a null count and casualties from the
\* other count
C18_Witness ==
    /\ pc = "serving"
    /\ \E i \in Rows(data) : data[i].nwound = 0 /\ data[i].nkill = 2 /\ data[i].casualties = 2
    /\ \E i \in DOMAIN RawA : RawA[i].nwound = <<>> /\ RawA[i].nkill = <<2>>
    /\ data = load_data(RawA)

\* C19: update_success_split publishes every column empty when the subset is
\* empty or has no Successful or Failed row (nothing is divided by the zero
\* total); otherwise it publishes two rows, Successful then Failed, whose
\* incidents sum to the total and whose percentages sum to 100.
C19_SuccessSplit ==
    LET S == InputOf("success_source")
        total == Cardinality({i \in S : data[i].success_flag \in {"Successful", "Failed"}})
        rows == out.val.success_source
    IN  IF total = 0
        THEN rows = <<>> /\ \A c \in Keys(out, "success_source") : out.src.success_source.cols[c] = 0
        ELSE /\ Len(rows) = 2
             /\ rows[1].category = "Successful" /\ rows[2].category = "Failed"
             /\ rows[1].incidents + rows[2].incidents = total
             /\ rows[1].percent[2] = total /\ rows[2].percent[2] = total
             /\ rows[1].percent[1] + rows[2].percent[1] = 100 * total
             /\ \A c \in Keys(out, "success_source") : out.src.success_source.cols[c] = 2

\* the split was computed from a non-empty subset without a Successful or
\* Failed row
C19_Witness ==
    /\ InputOf("success_source") # {}
    /\ \A i \in InputOf("success_source") : data[i].success_flag = NaN
    /\ out.val.success_source = <<>>

\* C20: the boxplot has one row for every region of the subset, and in each
\* row lower <= q1 <= q2 <= q3 <= upper with lower = max(min, q1 - 1.5 IQR)
\* and upper = min(max, q3 + 1.5 IQR) over the region's nkill values (the
\* statistics are in eighths).
C20_BoxplotOrdered ==
    LET S == InputOf("boxplot_source")
        rows == out.val.boxplot_source
        kills(r) == {data[i].nkill : i \in {j \in S : data[j].region_txt = r}}
    IN  /\ {rows[k].region_full : k \in DOMAIN rows} = Col(data, S, "region_txt")
        /\ Len(rows) = Cardinality(Col(data, S, "region_txt"))
        /\ \A k \in DOMAIN rows :
              /\ rows[k].lower <= rows[k].q1 /\ rows[k].q1 <= rows[k].q2
              /\ rows[k].q2 <= rows[k].q3 /\ rows[k].q3 <= rows[k].upper
              /\ 2 * rows[k].lower
                     = Max2(16 * SetMin(kills(rows[k].region_full)),
                            2 * rows[k].q1 - 3 * (rows[k].q3 - rows[k].q1))
              /\ 2 * rows[k].upper
                     = Min2(16 * SetMax(kills(rows[k].region_full)),
                            2 * rows[k].q3 + 3 * (rows[k].q3 - rows[k].q1))

\* a region whose quartiles differ and whose lower whisker is held at the
\* smallest value
C20_Witness ==
    \E k \in DOMAIN out.val.boxplot_source :
        /\ out.val.boxplot_source[k].q1 < out.val.boxplot_source[k].q3
        /\ 2 * out.val.boxplot_source[k].q1
               - 3 * (out.val.boxplot_source[k].q3 - out.val.boxplot_source[k].q1)
             < 2 * out.val.boxplot_source[k].lower

-----------------------------------------------------------------------------
\* C21: every published source is well formed: in every reachable state all
\* columns of a source have the same length, after refreshes on empty,
\* single-row and multi-row subsets.
C21_ColumnsSameLength ==
    \A name \in DOMAIN out.src :
        Cardinality({out.src[name].cols[c] : c \in Keys(out, name)}) <= 1

\* the split, the flow nodes and the stacked regions were published with
\* rows, from a subset of one row
C21_Witness ==
    /\ out.src.success_source.cols["color"] = 2
    /\ out.src.sankey_node_source.cols["value"] > 2
    /\ out.src.region_stack_source.cols["year"] = 1
    /\ Cardinality(InputOf("success_source")) = 1

HeatValues == [k \in DOMAIN out.val.heatmap_source |-> out.val.heatmap_source[k].casualties]

HeatColor(k) == out.val.heatmap_source[k].color

\* C25: build_palette gives one colour per value: nothing for no values, the
\* fallback colour for each value when all are equal, and otherwise the
\* palette entry at floor((v - min) / (max - min) * 255), which is within
\* 0..255, 0 for the minimum, 255 for the maximum and non-decreasing in v.
C25_PaletteIndex ==
    /\ build_palette(<<>>) = <<>>
    /\ Len(build_palette(HeatValues)) = Len(HeatValues)
    /\ \A k \in DOMAIN HeatValues :
          LET vmin == SetMin(Range(HeatValues))
              vmax == SetMax(Range(HeatValues))
          IN  IF vmin = vmax THEN HeatColor(k) = <<"#ffcc00">>
              ELSE /\ HeatColor(k)[1] = "Turbo256"
                   /\ HeatColor(k)[2] \in 0..255
                   /\ HeatColor(k)[2] * (vmax - vmin) <= (HeatValues[k] - vmin) * 255
                   /\ (HeatValues[k] - vmin) * 255 < (HeatColor(k)[2] + 1) * (vmax - vmin)
                   /\ HeatValues[k] = vmin => HeatColor(k)[2] = 0
                   /\ HeatValues[k] = vmax => HeatColor(k)[2] = 255
                   /\ \A j \in DOMAIN HeatValues :
                         HeatValues[j] <= HeatValues[k] => HeatColor(j)[2] <= HeatColor(k)[2]

\* a heat map of three cells with a colour strictly inside the palette
C25_Witness ==
    /\ Len(out.val.heatmap_source) >= 3
    /\ \E k \in DOMAIN out.val.heatmap_source :
          /\ HeatColor(k)[1] = "Turbo256"
          /\ HeatColor(k)[2] \in 1..254

\* the rows of the subset behind the attack-region source with the given
\* year, region and attack type
AttackRegionGroup(y, r, a) ==
    {i \in InputOf("attack_region_source") :
        data[i].iyear = y /\ data[i].region_txt = r /\ data[i].attacktype1_txt = a}

\* C30: update_attack_region publishes exactly one row per (year, region)
\* pair of the subset; the row's attack type has the largest incident count
\* among the attack types of the pair, and incidents is that count.
C30_DominantAttack ==
    LET rows == out.val.attack_region_source
    IN  /\ {<<rows[k].year, rows[k].region>> : k \in DOMAIN rows}
               = Pairs(data, InputOf("attack_region_source"), "iyear", "region_txt")
        /\ \A j, k \in DOMAIN rows :
              <<rows[j].year, rows[j].region>> = <<rows[k].year, rows[k].region>> => j = k
        /\ \A k \in DOMAIN rows :
              /\ rows[k].incidents
                     = Cardinality(AttackRegionGroup(rows[k].year, rows[k].region, rows[k].attack))
              /\ \A a \in Col(data, InputOf("attack_region_source"), "attacktype1_txt") :
                    Cardinality(AttackRegionGroup(rows[k].year, rows[k].region, a))
                        <= rows[k].incidents

\* several pairs published, one of them with a dominant attack type next to
\* a rarer one that precedes it in the order of the labels
C30_Witness ==
    /\ Len(out.val.attack_region_source) >= 3
    /\ \E k \in DOMAIN out.val.attack_region_source :
          /\ out.val.attack_region_source[k].incidents > 1
          /\ out.val.attack_region_source[k].attack = "Bombing/Explosion"
          /\ AttackRegionGroup(out.val.attack_region_source[k].year,
                               out.val.attack_region_source[k].region, "Armed Assault") # {}

\* the keys of published rows, in row order
KeysOf(rows) == [k \in DOMAIN rows |-> rows[k].key]

\* the sum of the count column of published rows
CountSum(rows) == SetSum(DOMAIN rows, [k \in DOMAIN rows |-> rows[k].count])

\* the rows of a subset that fall in a period
InPeriod(S) == {i \in S : data[i].period # NaN}

FilteredWith(name, v) == filter_data(data, [widgets EXCEPT ![name] = v])

\* C28: the outcome selector partitions the data.  For the Filter State of
\* every reachable state, the subsets filter_data returns for "Successful"
\* and for "Failed" are disjoint and their union is the subset for "All";
\* likewise "Suicide" and "Non-suicide" for the suicide selector.
C28_SelectorsPartition ==
    /\ FilteredWith("success_select", "Successful")
           \cap FilteredWith("success_select", "Failed") = {}
    /\ FilteredWith("success_select", "Successful")
           \cup FilteredWith("success_select", "Failed") = FilteredWith("success_select", "All")
    /\ FilteredWith("suicide_select", "Suicide")
           \cap FilteredWith("suicide_select", "Non-suicide") = {}
    /\ FilteredWith("suicide_select", "Suicide")
           \cup FilteredWith("suicide_select", "Non-suicide") = FilteredWith("suicide_select", "All")

\* a range (lo, hi) that is a valid value of a RangeSlider from start to end
ValidRange(r, start, end) == start <= r[1] /\ r[1] <= r[2] /\ r[2] <= end

\* the year, fatality and casualty ranges of a Filter State are valid values
\* of their controls
RangesWellFormed(year, fatality, casualty) ==
    /\ ValidRange(year, globals.year_min, globals.year_max)
    /\ ValidRange(fatality, 0, column_max(data, "nkill"))
    /\ ValidRange(casualty, 0, column_max(data, "casualties"))

\* C29: for every loadable dataset the startup Filter State and the Filter
\* State Reset assigns are well formed: year_min <= lo <= hi <= year_max for
\* the year range, 0 <= lo <= hi <= the slider's end for the fatality and
\* casualty ranges.
C29_DefaultsWellFormed ==
    /\ pc = "startup" =>
          RangesWellFormed(widgets.year_slider, widgets.fatality_slider, widgets.casualty_slider)
    /\ RangesWellFormed(reset_values(data, globals)[1][2], reset_values(data, globals)[5][2],
                        reset_values(data, globals)[6][2])

\* C27: no run of update_dashboard made during reset_filters observes a
\* partially reset Filter State: the Filter State each run of a Reset reads
\* has every parameter at the value it had before the Reset, or every
\* parameter at its startup default.
C27_ResetNeverPartial ==
    [][ log'.kind = "reset" =>
            \A k \in 1..Len(log'.runs) :
                \/ \A name \in FilterParams : log'.runs[k].state[name] = widgets[name]
                \/ \A name \in FilterParams :
                      log'.runs[k].state[name] = widget_values(data, globals)[name]
      ]_vars

PresentationSelectors == {"highlight_region_select", "hotspot_region_select", "timeline_metric"}

\* The outputs without the ones a presentation selector is shown in: the
\* region-highlight line for the highlight region (of the map only the
\* values of the alpha column depend on it, and the map's columns are kept
\* by their lengths), the hotspot chart for the hotspot focus, the timeline
\* line, its axis and the event markers for the timeline metric
ExceptFor(o, widget) ==
    CASE widget = "highlight_region_select" ->
            [o EXCEPT !.src.region_highlight_source = <<>>,
                      !.fig.region_highlight_color = <<>>]
      [] widget = "hotspot_region_select" ->
            [o EXCEPT !.src.hotspot_source = <<>>, !.val.hotspot_source = <<>>,
                      !.fig.hotspot_factors = <<>>]
      [] widget = "timeline_metric" ->
            [o EXCEPT !.src.timeline_renderer = <<>>, !.src.timeline_events_source = <<>>,
                      !.fig.timeline_axis_label = <<>>]
      [] OTHER -> o

\* C26: the presentation-only selectors do not affect the filtered data.  A
\* completed run made because the highlight region, the hotspot focus or
\* the timeline metric changed, after a completed run with the same Filter
\* State, computes the same subset and publishes the same outputs as that
\* run, except the outputs the selector is shown in.
C26_PresentationOnly ==
    [][ ( /\ log'.kind = "change"
          /\ log'.widget \in PresentationSelectors
          /\ log.runs # <<>>
          /\ FullRun(log.runs[Len(log.runs)])
          /\ Len(log'.runs) = 1
          /\ FullRun(log'.runs[1])
          /\ \A name \in FilterParams :
                log'.runs[1].state[name] = log.runs[Len(log.runs)].state[name] )
        => /\ log'.runs[1].subset = log.runs[Len(log.runs)].subset
           /\ ExceptFor(out', log'.widget) = ExceptFor(out, log'.widget)
      ]_vars

\* a completed refresh on a subset of two regions, made because the highlight
\* region was set to one of them: the highlight line is published
C26_Witness ==
    /\ log.kind = "change"
    /\ log.widget = "highlight_region_select"
    /\ FullRun(LastRun)
    /\ Cardinality(Col(data, LastRun.subset, "region_txt")) = 2
    /\ widgets.highlight_region_select \in Col(data, LastRun.subset, "region_txt")
    /\ out.src.region_highlight_source.cols["year"] > 0

\* The ranking key of group c of column f over the rows S: the number of
\* incidents, or the casualties total
GroupRank(S, f, rank, c) ==
    IF rank = "incidents" THEN Cardinality({i \in S : data[i][f] = c})
    ELSE SetSum({i \in S : data[i][f] = c}, [i \in Rows(data) |-> data[i].casualties])

\* ranked, a sequence of <<group, ranking key>>, is a Top-N of the groups of
\* column f over the rows S: min(N, number of groups) distinct groups with
\* their keys, in non-increasing order of the key, and no group left out
\* has a greater key than a group that is in
TopGroups(ranked, S, f, rank, N) ==
    LET shown == {ranked[k][1] : k \in DOMAIN ranked}
    IN  /\ Len(ranked) = Min2(N, Cardinality(Col(data, S, f)))
        /\ Cardinality(shown) = Len(ranked)
        /\ shown \subseteq Col(data, S, f)
        /\ \A k \in DOMAIN ranked : ranked[k][2] = GroupRank(S, f, rank, ranked[k][1])
        /\ \A j, k \in DOMAIN ranked : j < k => ranked[j][2] >= ranked[k][2]
        /\ \A c \in Col(data, S, f) \ shown :
              \A k \in DOMAIN ranked : GroupRank(S, f, rank, c) <= ranked[k][2]

\* rows, with the frame index of each, is a Top-N of the rows S by casualties
TopRows(rows, S, N) ==
    LET shown == {rows[k].index : k \in DOMAIN rows}
    IN  /\ Len(rows) = Min2(N, Cardinality(S))
        /\ Cardinality(shown) = Len(rows)
        /\ shown \subseteq S
        /\ \A k \in DOMAIN rows : rows[k].casualties = data[rows[k].index].casualties
        /\ \A j, k \in DOMAIN rows : j < k => rows[j].casualties >= rows[k].casualties
        /\ \A i \in S \ shown : \A k \in DOMAIN rows : data[i].casualties <= rows[k].casualties

\* the rows of the subset behind the hotspot chart that lie in the focus region
HotspotInput == {i \in InputOf("hotspot_source") :
                    data[i].region_txt = widgets.hotspot_region_select}

====
